---- MODULE Spec2Model ----
(***************************************************************************)
(* Model of the central-body surface engine                                *)
(* (src/Source/Scene/CentralBodySurface.js): the quadtree LOD selection,   *)
(* the tile load pump, the layer-change handlers and the render-command    *)
(* assembly, together with the collaborators they drive.                   *)
(*                                                                         *)
(* One frame is one call of CentralBodySurface.prototype.update: selection, *)
(* load pump and command assembly in sequence.  Layer events, provider     *)
(* callbacks and toggleLodUpdate happen between frames only (the engine is *)
(* single threaded).                                                       *)
(***************************************************************************)
EXTENDS Integers, Sequences, FiniteSets, TLC

\* ------------------------------------------------------------------------
\* Bounds of the model
\* ------------------------------------------------------------------------
NumRoots == 1            \* level-zero tiles of the terrain tiling scheme
MaxLevel == 1            \* terrainProvider.maxLevel
NumLayers == 2           \* imagery layers that can be in the collection
ExtraLayers == 1         \* further layers the application can add (SpecLayers)
TrimLimit == 3           \* stands for the 100 of trimTiles(100), scaled to the tree
MaxTextureUnits == 2     \* largest context.getMaximumTextureImageUnits()
MaxBudget == 2           \* largest finite number of deadline checks that pass
MaxLayerEvents == 2      \* layer events (add, remove, move) in one behaviour
MaxFrames == 3           \* calls of update in one behaviour

\* ------------------------------------------------------------------------
\* The quadtree (Tile, modelled from the specification: four children,
\* created lazily by getChildren)
\* ------------------------------------------------------------------------
NumChildren == 4

TileCount == (NumRoots * (NumChildren ^ (MaxLevel + 1) - 1)) \div (NumChildren - 1)

Tiles == 1 .. TileCount

levelZeroTiles == [i \in 1 .. NumRoots |-> i]

Parent(t) == ((t - NumRoots - 1) \div NumChildren) + 1

ChildrenOf(t) == [k \in 1 .. NumChildren |-> NumRoots + NumChildren * (t - 1) + k]

RECURSIVE Level(_)
Level(t) == IF t <= NumRoots THEN 0 ELSE 1 + Level(Parent(t))

RECURSIVE Descendants(_)
Descendants(t) ==
    IF Level(t) >= MaxLevel THEN {}
    ELSE LET cs == {ChildrenOf(t)[k] : k \in 1 .. NumChildren}
         IN  cs \cup UNION {Descendants(c) : c \in cs}

\* ------------------------------------------------------------------------
\* Enumerations
\* ------------------------------------------------------------------------
TileState == {"UNLOADED", "TRANSITIONING", "RECEIVED", "TRANSFORMED", "READY", "FAILED"}

ImageryState == {"PLACEHOLDER", "UNLOADED", "TRANSITIONING", "RECEIVED",
                 "TEXTURE_LOADED", "READY", "FAILED", "INVALID"}

Layers == 1 .. NumLayers

\* every layer the application can hand to imageryLayerCollection.add
AllLayers == 1 .. NumLayers + ExtraLayers

NoLayer == 0             \* undefined layer (imageryLayerCollection.get past the end)

NoTile == 0              \* undefined tile

\* An Imagery of a layer's pyramid is <<layer, tile position>>; the pyramid of
\* every layer has the shape of the terrain quadtree.  <<layer, 0>> is the
\* layer's placeholder imagery; NoImagery is undefined.
ImageryIds == AllLayers \X (0 .. TileCount)

NoImagery == <<0, 0>>

PlaceholderOf(layer) == <<layer, 0>>

IsPlaceholder(id) == id[2] = 0

imageryLayer(id) == id[1]

\* imagery.parent: the ancestor in the layer's pyramid, undefined at level 0
imageryParent(id) ==
    IF IsPlaceholder(id) \/ id[2] <= NumRoots THEN NoImagery
    ELSE <<id[1], Parent(id[2])>>

\* Extent of a layer: layer 2 does not reach the last child of any tile.
Covers(layer, t) == ~(layer = 2 /\ t > NumRoots /\ (t - NumRoots) % NumChildren = 0)

FreshState(id) == IF IsPlaceholder(id) THEN "PLACEHOLDER" ELSE "UNLOADED"

\* ------------------------------------------------------------------------
\* Sequence helpers (JavaScript arrays, 0-based indices)
\* ------------------------------------------------------------------------
Range(s) == {s[i] : i \in 1 .. Len(s)}

Without(s, x) == SelectSeq(s, LAMBDA y : y # x)

IndexOf(s, x) == IF x \in Range(s) THEN CHOOSE i \in 1 .. Len(s) : s[i] = x ELSE 0

Min(a, b) == IF a < b THEN a ELSE b

Max(a, b) == IF a > b THEN a ELSE b

\* Array.prototype.splice(start, deleteCount, items...): where the call starts
\* and how many elements it deletes
spliceStart(len, start) == IF start < 0 THEN Max(len + start, 0) ELSE Min(start, len)

spliceCount(len, from, deleteCount) == Min(Max(deleteCount, 0), len - from)

\* the array after the call
Splice(arr, start, deleteCount, items) ==
    LET put(from, count) ==
            SubSeq(arr, 1, from) \o items \o SubSeq(arr, from + count + 1, Len(arr))
    IN  put(spliceStart(Len(arr), start),
            spliceCount(Len(arr), spliceStart(Len(arr), start), deleteCount))

\* the elements splice(start, deleteCount) returns
Spliced(arr, start, deleteCount) ==
    LET take(from, count) == SubSeq(arr, from + 1, from + count)
    IN  take(spliceStart(Len(arr), start),
             spliceCount(Len(arr), spliceStart(Len(arr), start), deleteCount))

\* ------------------------------------------------------------------------
\* State
\* ------------------------------------------------------------------------
VARIABLES
    imageryLayerCollection,        \* the ordered layers (sequence of layer ids)
    providerReady,                 \* layers whose imageryProvider.isReady()
    state,                         \* tile.state
    renderable,                    \* tile.renderable
    doneLoading,                   \* tile.doneLoading
    imagery,                       \* tile.imagery: sequence of TileImagery
    children,                      \* tiles whose four children exist
    imageryState,                  \* imagery.state
    referenceCount,                \* imagery reference count
    pendingTerrain,                \* terrain request in flight: state it will deliver
    pendingImagery,                \* imagery request in flight: state it will deliver
    tileLoadQueue,                 \* TileLoadQueue, head first
    insertionPoint,                \* TileLoadQueue insertion boundary
    tileReplacementQueue,          \* TileReplacementQueue, head first
    lastSelectionFrame,            \* tiles whose lastSelectionFrame is the current frame
    tilesToRenderByTextureCount,   \* render lists, by number of READY textures
    debug,                         \* surface._debug
    tileCommands,                  \* length of the command pool
    colorCommandList,              \* commands emitted by the last assembly
    provider,                      \* kind and bad data of the providers (fixed)
    maximumTextureImageUnits,      \* context.getMaximumTextureImageUnits() (fixed)
    threw,                         \* an exception left update
    distance,                      \* tile.distance
    layerEvents,                   \* number of layer events so far
    frames,                        \* number of calls of update so far
    frame,                         \* what the current frame did (history)
    surface                        \* the call of the constructor and what it made

vars == <<imageryLayerCollection, providerReady, state, renderable, doneLoading,
          imagery, children, imageryState, referenceCount, pendingTerrain,
          pendingImagery, tileLoadQueue, insertionPoint, tileReplacementQueue,
          lastSelectionFrame, tilesToRenderByTextureCount, debug, tileCommands,
          colorCommandList, provider, maximumTextureImageUnits, threw, distance,
          layerEvents, frames, frame, surface>>

\* The objects the handlers mutate, as one record
World ==
    [collection |-> imageryLayerCollection, providerReady |-> providerReady,
     state |-> state, renderable |-> renderable, doneLoading |-> doneLoading,
     imagery |-> imagery, children |-> children, imageryState |-> imageryState,
     referenceCount |-> referenceCount, pendingTerrain |-> pendingTerrain,
     pendingImagery |-> pendingImagery, loadQueue |-> tileLoadQueue,
     insertionPoint |-> insertionPoint, replacementQueue |-> tileReplacementQueue,
     lastSelectionFrame |-> lastSelectionFrame,
     tilesToRender |-> tilesToRenderByTextureCount, debug |-> debug,
     tileCommands |-> tileCommands, commands |-> colorCommandList,
     threw |-> threw, distance |-> distance, frame |-> frame,
     provider |-> provider, maxTextures |-> maximumTextureImageUnits,
     surface |-> surface]

Install(w) ==
    /\ imageryLayerCollection' = w.collection
    /\ providerReady' = w.providerReady
    /\ state' = w.state
    /\ renderable' = w.renderable
    /\ doneLoading' = w.doneLoading
    /\ imagery' = w.imagery
    /\ children' = w.children
    /\ imageryState' = w.imageryState
    /\ referenceCount' = w.referenceCount
    /\ pendingTerrain' = w.pendingTerrain
    /\ pendingImagery' = w.pendingImagery
    /\ tileLoadQueue' = w.loadQueue
    /\ insertionPoint' = w.insertionPoint
    /\ tileReplacementQueue' = w.replacementQueue
    /\ lastSelectionFrame' = w.lastSelectionFrame
    /\ tilesToRenderByTextureCount' = w.tilesToRender
    /\ debug' = w.debug
    /\ tileCommands' = w.tileCommands
    /\ colorCommandList' = w.commands
    /\ threw' = w.threw
    /\ distance' = w.distance
    /\ frame' = w.frame
    /\ provider' = w.provider
    /\ maximumTextureImageUnits' = w.maxTextures
    /\ surface' = w.surface

MaxTextures == 2 * (NumLayers + ExtraLayers)     \* longest imagery stack a tile can get

\* frame.selected: the selection pass of the last update ran (was not suspended)
\* the tiles it visited, in order; the tiles whose children it enqueued; the
\* visited tiles whose screen-space error was below the maximum; the tiles that
\* were renderable when the selection pass, the update and the assembly
\* started; the tiles the pump marked renderable; the tiles markTileRendered
\* was called for; the tiles trimTiles destroyed; the number of READY entries
\* of each tile's stack when the commands were assembled; what the pump did
\* with each FAILED or INVALID imagery it visited; the load queue when the
\* selection pass began, the tiles the pass queued, in order, and the load
\* queue when it ended
NoFrame ==
    [selected |-> FALSE, visited |-> <<>>, refined |-> {}, belowSSE |-> {},
     renderableAtSelection |-> {}, renderableAtStart |-> {},
     madeRenderable |-> {}, assembled |-> FALSE, renderableAtAssembly |-> {},
     touched |-> {}, evicted |-> {}, readyAtAssembly |-> [t \in Tiles |-> 0],
     substitutions |-> {}, visits |-> {}, clearedByAdd |-> {},
     reloaded |-> {}, calls |-> {}, replacements |-> {}, trails |-> {},
     failedAtStart |-> {}, failedBefore |-> {},
     carryOver |-> <<>>, queued |-> <<>>,
     queueAfterSelection |-> <<>>, distances |-> [t \in Tiles |-> 0]]

\* ------------------------------------------------------------------------
\* Imagery reference counting and skeletons (ImageryLayer, modelled from the
\* specification)
\* ------------------------------------------------------------------------
addReference(w, id) == [w EXCEPT !.referenceCount[id] = @ + 1]

\* an Imagery whose count drops to zero is recycled
releaseReference(w, id) ==
    IF w.referenceCount[id] = 1
    THEN [w EXCEPT !.referenceCount[id] = 0,
                   !.imageryState[id] = FreshState(id),
                   !.pendingImagery[id] = "none"]
    ELSE [w EXCEPT !.referenceCount[id] = @ - 1]

TileImagery(id) ==
    [imagery |-> id, originalImagery |-> NoImagery, textureTranslationAndScale |-> FALSE]

\* the Imagery a layer puts on a tile: a placeholder while its provider is
\* not ready, else the imagery tiles of the layer that overlap the tile
skeletonImagery(w, layer, tile) ==
    IF layer \notin w.providerReady THEN <<PlaceholderOf(layer)>>
    ELSE IF Covers(layer, tile) THEN << <<layer, tile>> >>
    ELSE <<>>

RECURSIVE addReferences(_, _)
addReferences(w, ids) ==
    IF ids = <<>> THEN w ELSE addReferences(addReference(w, Head(ids)), Tail(ids))

\* layer.createTileImagerySkeletons(tile, terrainProvider, insertionPoint):
\* insertAt = -1 is the undefined insertion point (append)
createTileImagerySkeletons(w, layer, tile, insertAt) ==
    LET insert(ids) ==
            [addReferences(w, ids) EXCEPT !.imagery[tile] =
                Splice(@, IF insertAt = -1 THEN Len(@) ELSE insertAt, 0,
                       [i \in 1 .. Len(ids) |-> TileImagery(ids[i])])]
    IN  insert(skeletonImagery(w, layer, tile))

\* its return value: whether any skeleton was created
createsSkeletons(w, layer, tile) == skeletonImagery(w, layer, tile) # <<>>

\* imageryLayerCollection.get(index), 0-based
collectionGet(collection, index) ==
    IF index >= 0 /\ index < Len(collection) THEN collection[index + 1] ELSE NoLayer

\* ------------------------------------------------------------------------
\* moveTileImageryObjects (CentralBodySurface.js 750-780)
\* ------------------------------------------------------------------------
RECURSIVE moveScan(_, _, _, _, _, _, _)
moveScan(coll, layer, newNextLayer, i, old, new, num) ==
    IF i >= Len(coll) THEN [old |-> old, new |-> new, num |-> num]
    ELSE LET tileImageryLayer == imageryLayer(coll[i + 1].imagery)
         IN  IF new = -1 /\ tileImageryLayer = newNextLayer
             THEN moveScan(coll, layer, newNextLayer, i + 1, old, i, num)
             ELSE IF tileImageryLayer = layer
             THEN moveScan(coll, layer, newNextLayer, i + 1,
                           IF old = -1 THEN i ELSE old, new, num + 1)
             ELSE IF new # -1 /\ old # -1
             THEN [old |-> old, new |-> new, num |-> num]
             ELSE moveScan(coll, layer, newNextLayer, i + 1, old, new, num)

moveTileImageryObjects(tileImageryCollection, layer, newNextLayer) ==
    LET \* lines 776-779: splice the objects back in at newTileImageryIndex
        putBack(rest, tileImageryObjects, newTileImageryIndex) ==
            Splice(rest, IF newTileImageryIndex = -1 THEN Len(rest)
                         ELSE newTileImageryIndex, 0, tileImageryObjects)
        \* line 773: splice them out of the old location
        move(scan) ==
            putBack(Splice(tileImageryCollection, scan.old, scan.num, <<>>),
                    Spliced(tileImageryCollection, scan.old, scan.num), scan.new)
    IN  move(moveScan(tileImageryCollection, layer, newNextLayer, 0, -1, -1, 0))

\* ------------------------------------------------------------------------
\* Layer-change handlers (CentralBodySurface.js 124-193)
\* ------------------------------------------------------------------------
\* lines 134-140: the body of the loop, for one tile
addLayerToTile(w, layer, newNextLayer, tile) ==
    LET move(v) ==
            IF newNextLayer # NoLayer
            THEN [v EXCEPT !.imagery[tile] =
                              moveTileImageryObjects(@, layer, newNextLayer)]
            ELSE v
        mark(v) ==
            IF createsSkeletons(w, layer, tile)
            THEN [v EXCEPT !.doneLoading[tile] = FALSE,
                           !.frame.clearedByAdd =
                               IF w.doneLoading[tile] THEN @ \cup {tile} ELSE @]
            ELSE v
    IN  move(mark(createTileImagerySkeletons(w, layer, tile, -1)))

RECURSIVE onLayerAddedFrom(_, _, _, _)
onLayerAddedFrom(w, layer, newNextLayer, i) ==
    IF i > Len(w.replacementQueue) THEN w
    ELSE onLayerAddedFrom(addLayerToTile(w, layer, newNextLayer, w.replacementQueue[i]),
                          layer, newNextLayer, i + 1)

onLayerAdded(w, layer, index) ==
    onLayerAddedFrom(w, layer, collectionGet(w.collection, index + 1), 1)

\* the scan of one tile's stack in _onLayerRemoved: first index and length of
\* the first block of the layer
RECURSIVE removeScan(_, _, _, _, _)
removeScan(coll, layer, i, startIndex, numDestroyed) ==
    IF i >= Len(coll) THEN [startIndex |-> startIndex, numDestroyed |-> numDestroyed]
    ELSE IF imageryLayer(coll[i + 1].imagery) = layer
    THEN removeScan(coll, layer, i + 1,
                    IF startIndex = -1 THEN i ELSE startIndex, numDestroyed + 1)
    ELSE IF startIndex # -1
    THEN [startIndex |-> startIndex, numDestroyed |-> numDestroyed]
    ELSE removeScan(coll, layer, i + 1, startIndex, numDestroyed)

RECURSIVE releaseImagery(_, _)
releaseImagery(w, entries) ==
    IF entries = <<>> THEN w
    ELSE releaseImagery(releaseReference(w, Head(entries).imagery), Tail(entries))

removeLayerFromTile(w, layer, tile) ==
    LET unrenderable(v) ==
            IF Len(v.imagery[tile]) = 0
            THEN [v EXCEPT !.renderable[tile] = FALSE] ELSE v
        remove(coll, scan) ==
            IF scan.startIndex # -1
            THEN [releaseImagery(w, Spliced(coll, scan.startIndex, scan.numDestroyed))
                    EXCEPT !.imagery[tile] =
                             Splice(coll, scan.startIndex, scan.numDestroyed, <<>>)]
            ELSE w
    IN  unrenderable(remove(w.imagery[tile], removeScan(w.imagery[tile], layer, 0, -1, 0)))

RECURSIVE onLayerRemovedFrom(_, _, _)
onLayerRemovedFrom(w, layer, i) ==
    IF i > Len(w.replacementQueue) THEN w
    ELSE onLayerRemovedFrom(removeLayerFromTile(w, layer, w.replacementQueue[i]),
                            layer, i + 1)

onLayerRemoved(w, layer) == onLayerRemovedFrom(w, layer, 1)

RECURSIVE onLayerMovedFrom(_, _, _, _)
onLayerMovedFrom(w, layer, newNextLayer, i) ==
    IF i > Len(w.replacementQueue) THEN w
    ELSE onLayerMovedFrom([w EXCEPT !.imagery[w.replacementQueue[i]] =
                               moveTileImageryObjects(@, layer, newNextLayer)],
                          layer, newNextLayer, i + 1)

onLayerMoved(w, layer, newIndex) ==
    onLayerMovedFrom(w, layer, collectionGet(w.collection, newIndex + 1), 1)

\* ------------------------------------------------------------------------
\* TileLoadQueue (modelled from the specification)
\* ------------------------------------------------------------------------
markInsertionPoint(w) ==
    [w EXCEPT !.insertionPoint = IF w.loadQueue = <<>> THEN NoTile ELSE Head(w.loadQueue)]

\* moves or inserts the tile immediately before the insertion boundary; the
\* boundary tile itself stays where it is
insertBeforeInsertionPoint(w, tile) ==
    LET insert(q) ==
            [w EXCEPT !.loadQueue =
                Splice(q, IF w.insertionPoint = NoTile THEN Len(q)
                          ELSE IndexOf(q, w.insertionPoint) - 1, 0, <<tile>>)]
    IN  IF tile = w.insertionPoint THEN w ELSE insert(Without(w.loadQueue, tile))

loadNext(q, tile) ==
    IF IndexOf(q, tile) = 0 \/ IndexOf(q, tile) = Len(q) THEN NoTile
    ELSE q[IndexOf(q, tile) + 1]

loadQueueRemove(w, tile) ==
    IF tile \notin Range(w.loadQueue) THEN w
    ELSE [w EXCEPT !.loadQueue = Without(@, tile),
                   !.insertionPoint = IF @ = tile THEN loadNext(w.loadQueue, tile) ELSE @]

\* ------------------------------------------------------------------------
\* TileReplacementQueue and tile eviction (modelled from the specification)
\* ------------------------------------------------------------------------
markStartOfRenderFrame(w) == [w EXCEPT !.lastSelectionFrame = {}]

markTileRendered(w, tile) ==
    [w EXCEPT !.replacementQueue = <<tile>> \o Without(@, tile),
              !.lastSelectionFrame = @ \cup {tile},
              !.frame.touched = @ \cup {tile}]

releaseEntry(w, e) ==
    IF e.originalImagery # NoImagery
    THEN releaseReference(releaseReference(w, e.imagery), e.originalImagery)
    ELSE releaseReference(w, e.imagery)

RECURSIVE releaseTileImagery(_, _)
releaseTileImagery(w, entries) ==
    IF entries = <<>> THEN w
    ELSE releaseTileImagery(releaseEntry(w, Head(entries)), Tail(entries))

\* the tile's destroy: GPU resources and imagery references released, both
\* queue memberships removed, the terrain state back to UNLOADED; a request
\* or task of the tile that is in flight is not cancelled
freeResources(w, tile) ==
    [loadQueueRemove(releaseTileImagery(w, w.imagery[tile]), tile) EXCEPT
        !.imagery[tile] = <<>>,
        !.state[tile] = "UNLOADED",
        !.renderable[tile] = FALSE,
        !.doneLoading[tile] = FALSE,
        !.distance[tile] = 0,
        !.replacementQueue = Without(@, tile),
        !.lastSelectionFrame = @ \ {tile},
        !.frame.clearedByAdd = @ \ {tile}]

Largest(ts) == CHOOSE x \in ts : \A y \in ts : x >= y

RECURSIVE destroyTiles(_, _)
destroyTiles(w, ts) ==
    IF ts = {} THEN w
    ELSE destroyTiles(freeResources(w, Largest(ts)), ts \ {Largest(ts)})

\* the children a tile owns, recursively
Owned(w, tile) == {d \in Descendants(tile) : Parent(d) \in w.children}

\* eviction of a tile: the tile and the children it owns; the tile object
\* stays with its parent, the objects of its descendants are dropped with
\* whatever was in flight for them
evict(w, tile) ==
    [destroyTiles(w, Owned(w, tile) \cup {tile}) EXCEPT
        !.children = @ \ ({tile} \cup Owned(w, tile)),
        !.pendingTerrain = [t \in Tiles |->
                               IF t \in Owned(w, tile) THEN "none" ELSE @[t]],
        !.frame.evicted = @ \cup Owned(w, tile) \cup {tile}]

Last(q) == q[Len(q)]

RECURSIVE trimTiles(_, _)
trimTiles(w, maximumTiles) ==
    IF Len(w.replacementQueue) <= maximumTiles THEN w
    ELSE IF Last(w.replacementQueue) \in w.lastSelectionFrame THEN w
    ELSE trimTiles(evict(w, Last(w.replacementQueue)), maximumTiles)

\* ------------------------------------------------------------------------
\* Selection (CentralBodySurface.js 246-358, 410-463, 533-557)
\* ------------------------------------------------------------------------
\* A camera stands for frameState: which tiles pass the culling tests, which
\* tiles have a screen-space error below maxScreenSpaceError, the scene mode
\* and the distance of each tile.
Camera(sseLevel, hidden, mode, far) ==
    [belowSSE |-> {t \in Tiles : Level(t) >= sseLevel},
     visible  |-> Tiles \ hidden,
     mode     |-> mode,
     distance |-> [t \in Tiles |-> IF far THEN TileCount + 1 - t ELSE t]]

Cameras ==
    {Camera(d, {}, "SCENE3D", FALSE) : d \in 0 .. MaxLevel + 1} \cup
    {Camera(MaxLevel + 1, {NumRoots + 1}, "SCENE2D", TRUE),
     Camera(MaxLevel + 1, {1}, "SCENE3D", FALSE)}

isTileVisible(cam, tile) == tile \in cam.visible

\* lines 360-408: screenSpaceError(...) < maxScreenSpaceError, and the
\* tile.distance it stores (screenSpaceError2D stores none); the history keeps
\* the distances of the tiles from the camera of the frame
screenSpaceError(w, cam, tile) ==
    [w |-> IF cam.mode = "SCENE2D"
           THEN [w EXCEPT !.frame.distances = cam.distance]
           ELSE [w EXCEPT !.distance[tile] = cam.distance[tile],
                          !.frame.distances = cam.distance],
     below |-> tile \in cam.belowSSE]

\* mutant: a tile that is renderable is not queued
queueTileLoadUnlessRenderable(w, tile) ==
    IF w.renderable[tile] THEN w
    ELSE insertBeforeInsertionPoint([w EXCEPT !.frame.queued = Append(@, tile)], tile)

queueTileLoad(w, tile) ==
    insertBeforeInsertionPoint([w EXCEPT !.frame.queued = Append(@, tile)], tile)

readyTextureCount(w, tile) ==
    Cardinality({i \in 1 .. Len(w.imagery[tile]) :
                    w.imageryState[w.imagery[tile][i].imagery] = "READY"})

\* lines 418-429 of addTileToRenderList, the count of READY textures given
listTile(w, tile, count) ==
    [w EXCEPT !.tilesToRender[count] = Append(@, tile),
              !.debug.tilesRendered = @ + 1,
              !.debug.texturesRendered = @ + count]

\* mutant: the tile is listed but not counted
addTileToRenderListUncounted(w, tile) ==
    [w EXCEPT !.tilesToRender[readyTextureCount(w, tile)] = Append(@, tile),
              !.debug.texturesRendered = @ + readyTextureCount(w, tile)]

addTileToRenderList(w, tile) == listTile(w, tile, readyTextureCount(w, tile))

\* lines 543-546: one child is marked and, unless loaded, queued
queueChild(w, child) ==
    IF ~w.doneLoading[child]
    THEN queueTileLoad(markTileRendered(w, child), child)
    ELSE markTileRendered(w, child)

RECURSIVE queueChildren(_, _, _)
queueChildren(w, cs, i) ==
    IF i > Len(cs) THEN w
    ELSE queueChildren(queueChild(w, cs[i]), cs, i + 1)

\* tile.getChildren(): the four children, created on first use
getChildren(w, tile) == [w EXCEPT !.children = @ \cup {tile}]

\* mutant: one renderable child is taken for all of them
queueChildrenLoadAnyRenderable(w, tile) ==
    IF Level(tile) = MaxLevel THEN [w |-> w, allRenderable |-> FALSE]
    ELSE [w |-> queueChildren(getChildren(w, tile), ChildrenOf(tile), 1),
          allRenderable |-> \E c \in Range(ChildrenOf(tile)) : w.renderable[c]]

\* mutant: getChildren is called before the level is tested
queueChildrenLoadBeforeLevelTest(w, tile) ==
    IF Level(tile) = MaxLevel
    THEN [w |-> getChildren(w, tile), allRenderable |-> FALSE]
    ELSE [w |-> queueChildren(getChildren(w, tile), ChildrenOf(tile), 1),
          allRenderable |-> \A c \in Range(ChildrenOf(tile)) : w.renderable[c]]

queueChildrenLoadAndDetermineIfChildrenAreAllRenderable(w, tile) ==
    IF Level(tile) = MaxLevel THEN [w |-> w, allRenderable |-> FALSE]
    ELSE [w |-> queueChildren(getChildren(w, tile), ChildrenOf(tile), 1),
          allRenderable |-> \A c \in Range(ChildrenOf(tile)) : w.renderable[c]]

\* lines 293-301: one root is queued unless loaded, and enqueued or culled
queueRoot(w, tile) == IF ~w.doneLoading[tile] THEN queueTileLoad(w, tile) ELSE w

culled(w, n) == [w EXCEPT !.debug.tilesCulled = @ + n]

RECURSIVE enqueueRoots(_, _, _, _)
enqueueRoots(w, cam, i, queue) ==
    IF i > Len(levelZeroTiles) THEN [w |-> w, queue |-> queue]
    ELSE IF w.renderable[levelZeroTiles[i]] /\ isTileVisible(cam, levelZeroTiles[i])
    THEN enqueueRoots(queueRoot(w, levelZeroTiles[i]), cam, i + 1,
                      Append(queue, levelZeroTiles[i]))
    ELSE enqueueRoots(culled(queueRoot(w, levelZeroTiles[i]), 1), cam, i + 1, queue)

visibleChildren(cam, tile) ==
    SelectSeq(ChildrenOf(tile), LAMBDA c : isTileVisible(cam, c))

\* lines 309-315: the dequeued tile is counted and marked
visit(w, tile) ==
    markTileRendered([w EXCEPT !.debug.tilesVisited = @ + 1,
                               !.debug.maxDepth = Max(@, Level(tile)),
                               !.frame.visited = Append(@, tile)], tile)

\* line 321: the screen-space error test, with the distance it stores
measured(sse, tile) ==
    [w |-> [sse.w EXCEPT !.frame.belowSSE = IF sse.below THEN @ \cup {tile} ELSE @],
     below |-> sse.below]

\* lines 326-334: the visible children are enqueued, the others culled
refine(w, cam, tile) ==
    culled([w EXCEPT !.frame.refined = @ \cup {tile}],
           NumChildren - Len(visibleChildren(cam, tile)))

\* mutant: a refined tile is added to the render list as well
RECURSIVE traverseRendersRefined(_, _, _)
traverseRendersRefined(w, cam, queue) ==
    LET descend(r, tile) ==
            IF r.allRenderable
            THEN traverseRendersRefined(
                     addTileToRenderList(refine(r.w, cam, tile), tile), cam,
                     Tail(queue) \o visibleChildren(cam, tile))
            ELSE traverseRendersRefined(addTileToRenderList(r.w, tile), cam, Tail(queue))
        decide(m, tile) ==
            IF m.below
            THEN traverseRendersRefined(addTileToRenderList(m.w, tile), cam, Tail(queue))
            ELSE descend(
                     queueChildrenLoadAndDetermineIfChildrenAreAllRenderable(m.w, tile), tile)
    IN  IF queue = <<>> THEN w
        ELSE decide(measured(screenSpaceError(visit(w, Head(queue)), cam, Head(queue)),
                             Head(queue)), Head(queue))

\* lines 308-339: the breadth-first traversal
RECURSIVE traverse(_, _, _)
traverse(w, cam, queue) ==
    LET descend(r, tile) ==
            IF r.allRenderable
            THEN traverse(refine(r.w, cam, tile), cam,
                          Tail(queue) \o visibleChildren(cam, tile))
            ELSE traverse(addTileToRenderList(r.w, tile), cam, Tail(queue))
        decide(m, tile) ==
            IF m.below
            THEN traverse(addTileToRenderList(m.w, tile), cam, Tail(queue))
            ELSE descend(
                     queueChildrenLoadAndDetermineIfChildrenAreAllRenderable(m.w, tile), tile)
    IN  IF queue = <<>> THEN w
        ELSE decide(measured(screenSpaceError(visit(w, Head(queue)), cam, Head(queue)),
                             Head(queue)), Head(queue))

\* mutant: the render lists of the frame before are kept
startSelectionKeepsLists(w) ==
    markStartOfRenderFrame(markInsertionPoint(
        [w EXCEPT !.debug.maxDepth = 0,
                  !.debug.tilesVisited = 0,
                  !.debug.tilesCulled = 0,
                  !.debug.tilesRendered = 0,
                  !.debug.texturesRendered = 0,
                  !.frame.selected = TRUE,
                  !.frame.carryOver = w.loadQueue,
                  !.frame.queued = <<>>,
                  !.frame.visited = <<>>,
                  !.frame.refined = {},
                  !.frame.belowSSE = {},
                  !.frame.distances = [t \in Tiles |-> 0],
                  !.frame.renderableAtSelection = {t \in Tiles : w.renderable[t]}]))

\* lines 254-276: the render lists and the counters are cleared, the queues
\* are marked
startSelection(w) ==
    markStartOfRenderFrame(markInsertionPoint(
        [w EXCEPT !.tilesToRender = [k \in DOMAIN @ |-> <<>>],
                  !.debug.maxDepth = 0,
                  !.debug.tilesVisited = 0,
                  !.debug.tilesCulled = 0,
                  !.debug.tilesRendered = 0,
                  !.debug.texturesRendered = 0,
                  !.frame.selected = TRUE,
                  !.frame.carryOver = w.loadQueue,
                  !.frame.queued = <<>>,
                  !.frame.visited = <<>>,
                  !.frame.refined = {},
                  !.frame.belowSSE = {},
                  !.frame.distances = [t \in Tiles |-> 0],
                  !.frame.renderableAtSelection = {t \in Tiles : w.renderable[t]}]))

\* history: the load queue the selection pass leaves
endSelection(w) == [w EXCEPT !.frame.queueAfterSelection = w.loadQueue]

\* mutant: the render lists are cleared before suspendLodUpdate is looked at
selectTilesClearsFirst(w, cam) ==
    LET traverseFrom(r) == endSelection(traverse(r.w, cam, r.queue))
    IN  IF w.debug.suspendLodUpdate
        THEN [w EXCEPT !.tilesToRender = [k \in DOMAIN @ |-> <<>>],
                       !.frame.selected = FALSE]
        ELSE traverseFrom(enqueueRoots(startSelection(w), cam, 1, <<>>))

\* lines 246-340
selectTilesForRendering(w, cam) ==
    LET traverseFrom(r) == endSelection(traverse(r.w, cam, r.queue))
    IN  IF w.debug.suspendLodUpdate
        THEN [w EXCEPT !.frame.selected = FALSE]
        ELSE traverseFrom(enqueueRoots(startSelection(w), cam, 1, <<>>))

\* ------------------------------------------------------------------------
\* Providers.  A provider call completes at once ("sync"), goes in flight and
\* completes between frames ("async"), is declined and leaves the state as it
\* was ("postpone"), or fails ("fail").  The kind of the providers and the
\* tiles whose data is bad are fixed for a behaviour:
\*   "sync"      every call completes at once;
\*   "async"     requests go in flight, processing completes at once;
\*   "ellipsoid" EllipsoidTerrainProvider (CentralBodySurface.js 1108-1174):
\*               requestTileGeometry and createResources complete at once,
\*               transformGeometry schedules a task, or is postponed when the
\*               task processor is busy; imagery completes at once.
\* ------------------------------------------------------------------------
Provider(kind, badImagery, badTerrain) ==
    [kind |-> kind, badImagery |-> badImagery, badTerrain |-> badTerrain]

Providers ==
    {Provider("sync", {}, {}),
     Provider("ellipsoid", {}, {}),
     Provider("async", {<<1, 1>>}, {}),
     Provider("sync", {<<1, NumRoots + 1>>}, {NumRoots + 2})}

terrainCall(w, tile, how, pre, post) ==
    CASE how = "sync"     -> [w EXCEPT !.state[tile] = post]
      [] how = "async"    -> [w EXCEPT !.state[tile] = "TRANSITIONING",
                                       !.pendingTerrain[tile] = post]
      [] how = "postpone" -> [w EXCEPT !.state[tile] = pre]
      [] how = "fail"     -> [w EXCEPT !.state[tile] = "FAILED"]

requestTileGeometry(w, tile) ==
    terrainCall(w, tile,
                IF tile \in w.provider.badTerrain THEN "fail"
                ELSE IF w.provider.kind = "async" THEN "async" ELSE "sync",
                "UNLOADED", "RECEIVED")

transformGeometry(w, tile, busy) ==
    terrainCall(w, tile,
                IF w.provider.kind # "ellipsoid" THEN "sync"
                ELSE IF busy THEN "postpone" ELSE "async",
                "RECEIVED", "TRANSFORMED")

createResources(w, tile) == terrainCall(w, tile, "sync", "TRANSFORMED", "READY")

imageryCall(w, id, how, pre, post) ==
    CASE how = "sync"     -> [w EXCEPT !.imageryState[id] = post]
      [] how = "async"    -> [w EXCEPT !.imageryState[id] = "TRANSITIONING",
                                       !.pendingImagery[id] = post]
      [] how = "fail"     -> [w EXCEPT !.imageryState[id] = "FAILED"]

requestImagery(w, id) ==
    imageryCall(w, id,
                IF w.provider.kind = "async" THEN "async"
                ELSE IF id \in w.provider.badImagery THEN "fail" ELSE "sync",
                "UNLOADED", "RECEIVED")

createTexture(w, id) == imageryCall(w, id, "sync", "RECEIVED", "TEXTURE_LOADED")

reprojectTexture(w, id) == imageryCall(w, id, "sync", "TEXTURE_LOADED", "READY")

\* ------------------------------------------------------------------------
\* The load pump (CentralBodySurface.js 559-675).  budget is the number of
\* Date.now() < endTime tests that still pass; Unlimited is a pass that is
\* never cut.  The first test follows the computation of endTime at once and
\* passes.
\* ------------------------------------------------------------------------
Unlimited == MaxBudget + 1

Budgets == 1 .. Unlimited

spend(budget) == IF budget = Unlimited THEN budget ELSE budget - 1

RECURSIVE createSkeletonsOfAllLayers(_, _, _)
createSkeletonsOfAllLayers(w, tile, i) ==
    IF i > Len(w.collection) THEN w
    ELSE createSkeletonsOfAllLayers(
             createTileImagerySkeletons(w, w.collection[i], tile, -1), tile, i + 1)

\* lines 579-590: past UNLOADED, the tile enters the replacement queue, the
\* queue is trimmed and the skeletons of every layer are created
enterReplacementQueue(w, tile) ==
    IF w.state[tile] # "UNLOADED"
    THEN createSkeletonsOfAllLayers(
             trimTiles(markTileRendered(w, tile), TrimLimit), tile, 1)
    ELSE w

\* history of a call of the terrain provider: the state the tile was in and
\* whether a request or a task of the tile was in flight
noteTerrainCall(w, call, tile) ==
    [w EXCEPT !.frame.calls = @ \cup
        {[call |-> call, tile |-> tile, imagery |-> NoImagery,
          from |-> w.state[tile],
          inFlight |-> w.pendingTerrain[tile] # "none"]},
              !.state[tile] = "TRANSITIONING"]

\* history of a call of an imagery layer: the state the imagery was in and
\* whether a request of the imagery was in flight
noteImageryCall(w, call, img) ==
    [w EXCEPT !.frame.calls = @ \cup
        {[call |-> call, tile |-> NoTile, imagery |-> img,
          from |-> w.imageryState[img],
          inFlight |-> w.pendingImagery[img] # "none"]},
              !.imageryState[img] = "TRANSITIONING"]

\* mutant: a tile whose terrain failed is requested again
requestTerrainRetriesFailed(w, tile) ==
    IF w.state[tile] \in {"UNLOADED", "FAILED"}
    THEN enterReplacementQueue(
             requestTileGeometry(noteTerrainCall(w, "requestTileGeometry", tile), tile),
             tile)
    ELSE w

\* lines 573-591
requestTerrain(w, tile) ==
    IF w.state[tile] = "UNLOADED"
    THEN enterReplacementQueue(
             requestTileGeometry(noteTerrainCall(w, "requestTileGeometry", tile), tile),
             tile)
    ELSE w

\* lines 593-596
transformTerrain(w, tile, busy) ==
    IF w.state[tile] = "RECEIVED"
    THEN transformGeometry(noteTerrainCall(w, "transformGeometry", tile), tile, busy)
    ELSE w

\* lines 598-601
createTerrainResources(w, tile) ==
    IF w.state[tile] = "TRANSFORMED"
    THEN createResources(noteTerrainCall(w, "createResources", tile), tile)
    ELSE w

\* lines 572-603
transitionTerrain(w, tile, busy) ==
    createTerrainResources(transformTerrain(requestTerrain(w, tile), tile, busy), tile)

\* line 614-615: a placeholder whose provider is ready by now
isReplaced(w, img) ==
    w.imageryState[img] = "PLACEHOLDER" /\ imageryLayer(img) \in w.providerReady

\* mutant: the placeholder is released twice
replacePlaceholderReleasesTwice(w, tile, i, img) ==
    createTileImagerySkeletons(
        [releaseReference(releaseReference(w, img), img) EXCEPT
            !.imagery[tile] = Splice(@, i, 1, <<>>)],
        imageryLayer(img), tile, i)

\* lines 616-622: the placeholder is released and the skeletons of its layer
\* take its position
replacePlaceholder(w, tile, i, img) ==
    createTileImagerySkeletons(
        [releaseReference(w, img) EXCEPT !.imagery[tile] = Splice(@, i, 1, <<>>)],
        imageryLayer(img), tile, i)

\* lines 625-628
requestStep(w, img) ==
    IF w.imageryState[img] = "UNLOADED"
    THEN requestImagery(noteImageryCall(w, "requestImagery", img), img)
    ELSE w

\* lines 630-633
textureStep(w, img) ==
    IF w.imageryState[img] = "RECEIVED"
    THEN createTexture(noteImageryCall(w, "createTexture", img), img)
    ELSE w

\* lines 635-638
reprojectStep(w, img) ==
    IF w.imageryState[img] = "TEXTURE_LOADED"
    THEN reprojectTexture(noteImageryCall(w, "reprojectTexture", img), img)
    ELSE w

\* lines 643-646: the nearest ancestor that is neither FAILED nor INVALID
RECURSIVE nonFailedAncestor(_, _)
nonFailedAncestor(w, parent) ==
    IF parent # NoImagery /\ w.imageryState[parent] \in {"FAILED", "INVALID"}
    THEN nonFailedAncestor(w, imageryParent(parent))
    ELSE parent

\* the ancestors of an imagery in its layer's pyramid
RECURSIVE Ancestors(_)
Ancestors(id) ==
    IF imageryParent(id) = NoImagery THEN {}
    ELSE {imageryParent(id)} \cup Ancestors(imageryParent(id))

Failed == {"FAILED", "INVALID"}

\* history of one visit of a FAILED or INVALID imagery: the ancestors that
\* were not failed when the visit began, the imagery the entry ends with, and
\* what the visit did to the reference counts
noteSubstitution(before, after, tile, i, img) ==
    [after EXCEPT !.frame.substitutions = @ \cup
        {[tile |-> tile,
          failed |-> img,
          candidates |-> {a \in Ancestors(img) : before.imageryState[a] \notin Failed},
          imagery |-> after.imagery[tile][i + 1].imagery,
          originalImagery |-> after.imagery[tile][i + 1].originalImagery,
          added |-> [a \in Ancestors(img) |->
                        after.referenceCount[a] - before.referenceCount[a]],
          released |-> before.referenceCount[img] - after.referenceCount[img],
          threw |-> after.threw]}]

\* mutant: the failed imagery is released when the ancestor takes its place
useParentReleasesOriginal(w, tile, i, img, parent) ==
    LET substitute(v) == noteSubstitution(w, v, tile, i, img)
    IN  substitute(
            IF parent = NoImagery
            THEN [w EXCEPT !.imagery[tile][i + 1].originalImagery = img,
                           !.threw = TRUE]
            ELSE [releaseReference(addReference(w, parent), img) EXCEPT
                     !.imagery[tile][i + 1].originalImagery = img,
                     !.imagery[tile][i + 1].imagery = parent])

\* lines 648-654: the entry is re-associated with the ancestor; addReference on
\* an undefined parent is a TypeError that leaves update
useParent(w, tile, i, img, parent) ==
    LET substitute(v) == noteSubstitution(w, v, tile, i, img)
    IN  substitute(
            IF parent = NoImagery
            THEN [w EXCEPT !.imagery[tile][i + 1].originalImagery = img,
                           !.threw = TRUE]
            ELSE [addReference(w, parent) EXCEPT
                     !.imagery[tile][i + 1].originalImagery = img,
                     !.imagery[tile][i + 1].imagery = parent])

\* lines 640-655
reassociate(w, tile, i, img) ==
    IF w.imageryState[img] \in {"FAILED", "INVALID"}
    THEN useParent(w, tile, i, img, nonFailedAncestor(w, imageryParent(img)))
    ELSE w

\* mutant: the loop goes on behind the index of a replaced placeholder
iterationResultSkips(w, tile, i, replaced, done) ==
    [w |-> IF done /\ ~replaced
           THEN [w EXCEPT !.imagery[tile][i + 1].textureTranslationAndScale = TRUE]
           ELSE w,
     i |-> i + 1,
     imageryDoneLoading |-> done]

\* lines 657-663, and lines 620 and 609 (--i, then ++i): the imagery the
\* iteration ends with is READY or not
iterationResult(w, tile, i, replaced, done) ==
    [w |-> IF done /\ ~replaced
           THEN [w EXCEPT !.imagery[tile][i + 1].textureTranslationAndScale = TRUE]
           ELSE w,
     i |-> IF replaced THEN i ELSE i + 1,
     imageryDoneLoading |-> done]

endIteration(w, tile, i, img, replaced) ==
    iterationResult(w, tile, i, replaced,
        /\ ~w.threw
        /\ w.imageryState[IF replaced THEN img ELSE w.imagery[tile][i + 1].imagery]
              = "READY")

\* lines 610-663: one iteration of the imagery loop, at index i
transitionImagery(w, tile, i) ==
    LET run(img, replaced) ==
            endIteration(
                reassociate(
                    reprojectStep(textureStep(requestStep(
                        IF replaced THEN replacePlaceholder(w, tile, i, img) ELSE w,
                        img), img), img),
                    tile, i, img),
                tile, i, img, replaced)
    IN  run(w.imagery[tile][i + 1].imagery,
            isReplaced(w, w.imagery[tile][i + 1].imagery))

\* the imagery object an entry stands for: its own, or the failed one an
\* ancestor took the place of
entryKey(e) == IF e.originalImagery # NoImagery THEN e.originalImagery ELSE e.imagery

\* history of one iteration that replaced a placeholder: the stack before
\* and after, what the placeholder lost in references, and the index the
\* loop goes on at
noteReplacement(before, r, tile, i, img) ==
    IF ~isReplaced(before, img) THEN r
    ELSE [r EXCEPT !.w.frame.replacements = @ \cup
             {[tile |-> tile,
               index |-> i,
               placeholder |-> img,
               before |-> before.imagery[tile],
               after |-> r.w.imagery[tile],
               released |-> before.referenceCount[img] - r.w.referenceCount[img],
               resumedAt |-> r.i]}]

\* lines 609-664: the imagery loop of one tile; trail is the history of the
\* entries the iterations began with
RECURSIVE transitionImageryStack(_, _, _, _, _, _)
transitionImageryStack(w, tile, i, budget, doneLoadingSoFar, trail) ==
    LET next(r) ==
            transitionImageryStack(r.w, tile, r.i, spend(budget),
                doneLoadingSoFar /\ r.imageryDoneLoading,
                Append(trail,
                       [entry |-> entryKey(w.imagery[tile][i + 1]),
                        replaced |-> isReplaced(w, w.imagery[tile][i + 1].imagery)]))
    IN  IF i >= Len(w.imagery[tile]) \/ budget = 0 \/ w.threw
        THEN [w |-> w, i |-> i, budget |-> budget, doneLoading |-> doneLoadingSoFar,
              trail |-> trail]
        ELSE next(noteReplacement(w, transitionImagery(w, tile, i), tile, i,
                                  w.imagery[tile][i + 1].imagery))

\* line 605 and the loop: the imagery of a tile whose terrain was advanced
transitionTileImagery(w, tile, budget) ==
    transitionImageryStack(w, tile, 0, budget, w.state[tile] = "READY", <<>>)

\* history of the visits that replaced a placeholder: the entries the
\* iterations began with, the index the loop ended at and the stack it left
noteTrail(after, r, tile) ==
    IF \A k \in 1 .. Len(r.trail) : ~r.trail[k].replaced THEN after
    ELSE [after EXCEPT !.frame.trails = @ \cup
             {[tile |-> tile,
               trail |-> r.trail,
               examined |-> r.i,
               stack |-> [k \in 1 .. Len(after.imagery[tile]) |->
                             entryKey(after.imagery[tile][k])],
               threw |-> after.threw]}]

\* lines 667-669: terrain and all imagery are loaded
becomeRenderable(w, tile) ==
    [w EXCEPT !.renderable[tile] = TRUE,
              !.doneLoading[tile] = TRUE,
              !.frame.madeRenderable = @ \cup {tile},
              !.frame.reloaded = @ \cup ({tile} \cap w.frame.clearedByAdd),
              !.frame.clearedByAdd = @ \ {tile}]

\* history of the visits of the pump that set doneLoading: what the visit
\* found (r) and how it left the tile (after)
noteVisit(before, r, tile, after) ==
    IF before.doneLoading[tile] \/ ~after.doneLoading[tile] THEN after
    ELSE
    [after EXCEPT !.frame.visits = @ \cup
        {[tile |-> tile,
          terrain |-> r.w.state[tile],
          examined |-> r.i,
          length |-> Len(r.w.imagery[tile]),
          notReady |-> {k \in 1 .. Len(r.w.imagery[tile]) :
                          r.w.imageryState[r.w.imagery[tile][k].imagery] # "READY"},
          renderableAfter |-> after.renderable[tile],
          linkedAfter |-> tile \in Range(after.loadQueue)]}]

\* mutant: the index the imagery loop stopped at does not count
loadedAllIgnoresIndex(r, tile) == ~r.w.threw /\ r.doneLoading

\* line 667
loadedAll(r, tile) == ~r.w.threw /\ r.i = Len(r.w.imagery[tile]) /\ r.doneLoading

\* mutant: the finished tile stays linked in the load queue
processTileLeavesLinked(w, tile, budget, busy) ==
    LET noted(r, v) == [w |-> noteTrail(noteVisit(w, r, tile, v), r, tile),
                        budget |-> r.budget]
        finish(r) ==
            noted(r, IF loadedAll(r, tile)
                     THEN becomeRenderable(r.w, tile)
                     ELSE r.w)
    IN  finish(transitionTileImagery(transitionTerrain(w, tile, busy), tile, budget))

\* mutant: the terrain state does not count for doneLoading
processTileIgnoresTerrain(w, tile, budget, busy) ==
    LET noted(r, v) == [w |-> noteTrail(noteVisit(w, r, tile, v), r, tile),
                        budget |-> r.budget]
        finish(r) ==
            noted(r, IF loadedAll(r, tile)
                     THEN loadQueueRemove(becomeRenderable(r.w, tile), tile)
                     ELSE r.w)
    IN  finish(transitionImageryStack(transitionTerrain(w, tile, busy), tile, 0,
                                      budget, TRUE, <<>>))

\* lines 570-671: the visit of one tile
processTile(w, tile, budget, busy) ==
    LET noted(r, v) == [w |-> noteTrail(noteVisit(w, r, tile, v), r, tile),
                        budget |-> r.budget]
        finish(r) ==
            noted(r, IF loadedAll(r, tile)
                     THEN loadQueueRemove(becomeRenderable(r.w, tile), tile)
                     ELSE r.w)
    IN  finish(transitionTileImagery(transitionTerrain(w, tile, busy), tile, budget))

\* the tile the loop goes to after a visit: the first tile behind the visited
\* one that is still linked
RECURSIVE firstLinked(_, _)
firstLinked(q, candidates) ==
    IF candidates = <<>> THEN NoTile
    ELSE IF Head(candidates) \in Range(q) THEN Head(candidates)
    ELSE firstLinked(q, Tail(candidates))

\* the tiles linked behind a tile of the load queue
behind(q, tile) == SubSeq(q, IndexOf(q, tile) + 1, Len(q))

RECURSIVE pumpFrom(_, _, _, _)
pumpFrom(w, tile, budget, busy) ==
    LET continue(r) ==
            pumpFrom(r.w, firstLinked(r.w.loadQueue, behind(w.loadQueue, tile)),
                     r.budget, busy)
    IN  IF tile = NoTile \/ budget = 0 \/ w.threw THEN w
        ELSE continue(processTile(w, tile, spend(budget), busy))

processTileLoadQueue(w, budget, busy) ==
    pumpFrom(w, IF w.loadQueue = <<>> THEN NoTile ELSE Head(w.loadQueue), budget, busy)

\* ------------------------------------------------------------------------
\* Command assembly (CentralBodySurface.js 860-1032)
\* ------------------------------------------------------------------------
\* tileSet.sort(tileDistanceSortFunction); equal distances keep their order
Nearest(w, tileSet) ==
    CHOOSE j \in 1 .. Len(tileSet) :
        \A m \in 1 .. Len(tileSet) :
            \/ w.distance[tileSet[j]] < w.distance[tileSet[m]]
            \/ (w.distance[tileSet[j]] = w.distance[tileSet[m]] /\ j <= m)

RECURSIVE sortByDistance(_, _)
sortByDistance(w, tileSet) ==
    LET first(i) ==
            <<tileSet[i]>> \o
            sortByDistance(w, SubSeq(tileSet, 1, i - 1) \o
                              SubSeq(tileSet, i + 1, Len(tileSet)))
    IN  IF tileSet = <<>> THEN <<>> ELSE first(Nearest(w, tileSet))

\* lines 989-993: the texture of one READY imagery
dayTexture(tileImagery, imageryIndex) ==
    [index |-> imageryIndex,
     imagery |-> tileImagery.imagery,
     textureTranslationAndScale |-> tileImagery.textureTranslationAndScale]

\* mutant: the next entries fill the command whatever their state is
packTexturesUnchecked(w, coll, imageryIndex, dayTextures) ==
    [imageryIndex |-> Len(coll),
     dayTextures |-> dayTextures \o
         [k \in 1 .. Len(coll) - imageryIndex |->
             dayTexture(coll[imageryIndex + k], imageryIndex + k - 1)]]

\* lines 981-997: fill one command with up to maxTextures READY textures
RECURSIVE packTextures(_, _, _, _)
packTextures(w, coll, imageryIndex, dayTextures) ==
    IF Len(dayTextures) < w.maxTextures /\ imageryIndex < Len(coll)
    THEN IF w.imageryState[coll[imageryIndex + 1].imagery] # "READY"
         THEN packTextures(w, coll, imageryIndex + 1, dayTextures)
         ELSE packTextures(w, coll, imageryIndex + 1,
                  Append(dayTextures, dayTexture(coll[imageryIndex + 1], imageryIndex)))
    ELSE [imageryIndex |-> imageryIndex, dayTextures |-> dayTextures]

\* lines 940-1026: the do-while loop that emits the commands of one tile
RECURSIVE commandsOfTile(_, _, _, _)
commandsOfTile(w, tile, tileSetIndex, imageryIndex) ==
    LET emit(r) ==
            <<[tile |-> tile, shaderProgram |-> tileSetIndex,
               dayTextures |-> r.dayTextures]>> \o
            (IF r.imageryIndex < Len(w.imagery[tile])
             THEN commandsOfTile(w, tile, tileSetIndex, r.imageryIndex)
             ELSE <<>>)
    IN  emit(packTextures(w, w.imagery[tile], imageryIndex, <<>>))

RECURSIVE commandsOfTileSet(_, _, _, _)
commandsOfTileSet(w, tileSet, tileSetIndex, i) ==
    IF i > Len(tileSet) THEN <<>>
    ELSE commandsOfTile(w, tileSet[i], tileSetIndex, 0) \o
         commandsOfTileSet(w, tileSet, tileSetIndex, i + 1)

RECURSIVE commandsOfBuckets(_, _)
commandsOfBuckets(w, tileSetIndex) ==
    IF tileSetIndex > MaxTextures THEN <<>>
    ELSE commandsOfTileSet(w, w.tilesToRender[tileSetIndex], tileSetIndex, 1) \o
         commandsOfBuckets(w, tileSetIndex + 1)

\* line 876: every render list is sorted in place
sortRenderLists(w) ==
    [w EXCEPT !.tilesToRender = [k \in DOMAIN @ |-> sortByDistance(w, @[k])]]

\* lines 1003 and 1031: the commands are pushed, the pool is trimmed to
\* Math.max(0, tileCommandIndex)
emitCommands(w, commands) ==
    [w EXCEPT !.commands = commands,
              !.tileCommands = Max(0, Len(commands) - 1)]

createRenderCommandsForSelectedTiles(w) ==
    LET assemble(v) == emitCommands(v, commandsOfBuckets(v, 0))
    IN  assemble(sortRenderLists(w))

\* ------------------------------------------------------------------------
\* CentralBodySurface.prototype.update (CentralBodySurface.js 109-122); a
\* TypeError thrown by the pump leaves update before the assembly
\* ------------------------------------------------------------------------
startFrame(w) ==
    [w EXCEPT !.commands = <<>>,
              !.frame.renderableAtStart = {t \in Tiles : w.renderable[t]},
              !.frame.madeRenderable = {},
              !.frame.touched = {},
              !.frame.evicted = {},
              !.frame.substitutions = {},
              !.frame.visits = {},
              !.frame.reloaded = {},
              !.frame.calls = {},
              !.frame.replacements = {},
              !.frame.trails = {},
              !.frame.failedAtStart = {t \in Tiles : w.state[t] = "FAILED"},
              !.frame.failedBefore = @ \cup {t \in Tiles : w.state[t] = "FAILED"},
              !.frame.assembled = FALSE]

startAssembly(w) ==
    [w EXCEPT !.frame.assembled = TRUE,
              !.frame.renderableAtAssembly = {t \in Tiles : w.renderable[t]},
              !.frame.readyAtAssembly = [t \in Tiles |-> readyTextureCount(w, t)]]

update(w, cam, budget, busy) ==
    LET assemble(v) ==
            IF v.threw THEN v
            ELSE createRenderCommandsForSelectedTiles(startAssembly(v))
    IN  assemble(processTileLoadQueue(
                     selectTilesForRendering(startFrame(w), cam), budget, busy))

\* ------------------------------------------------------------------------
\* Actions
\* ------------------------------------------------------------------------
\* the description the constructor is called with: which of the two
\* collaborators it holds
Descriptions == [terrainProvider : BOOLEAN, imageryLayerCollection : BOOLEAN]

\* the surface before the body of the constructor runs
NewSurface(description) ==
    [description |-> description, status |-> "new", message |-> "",
     listeners |-> {}, levelZeroTiles |-> FALSE, queues |-> FALSE,
     destroyed |-> {}]

LayerEventNames == {"layerAdded", "layerRemoved", "layerMoved"}

\* lines 59-64: the DeveloperError of a missing collaborator
developerError(s, message) ==
    [s EXCEPT !.status = "DeveloperError", !.message = message]

\* mutant: the listeners are registered before the description is checked
constructRegistersFirst(s) ==
    IF ~s.description.terrainProvider
    THEN developerError([s EXCEPT !.listeners = LayerEventNames],
                        "description.terrainProvider is required.")
    ELSE IF ~s.description.imageryLayerCollection
    THEN developerError([s EXCEPT !.listeners = LayerEventNames],
                        "description.imageryLayerCollection is required.")
    ELSE [s EXCEPT !.status = "constructed",
                   !.listeners = LayerEventNames,
                   !.levelZeroTiles = TRUE,
                   !.queues = TRUE]

\* lines 59-83: the checks, the three listeners, the root tiles, the queues
construct(s) ==
    IF ~s.description.terrainProvider
    THEN developerError(s, "description.terrainProvider is required.")
    ELSE IF ~s.description.imageryLayerCollection
    THEN developerError(s, "description.imageryLayerCollection is required.")
    ELSE [s EXCEPT !.status = "constructed",
                   !.listeners = LayerEventNames,
                   !.levelZeroTiles = TRUE,
                   !.queues = TRUE]

\* the values of the engine's fields after construction
\* (CentralBodySurface.js 59-107)
Fields ==
    /\ imageryLayerCollection \in {<<>>, <<1>>}
    /\ providerReady = Range(imageryLayerCollection)
    /\ state = [t \in Tiles |-> "UNLOADED"]
    /\ renderable = [t \in Tiles |-> FALSE]
    /\ doneLoading = [t \in Tiles |-> FALSE]
    /\ imagery = [t \in Tiles |-> <<>>]
    /\ children = {}
    /\ imageryState = [id \in ImageryIds |-> FreshState(id)]
    /\ referenceCount = [id \in ImageryIds |-> 0]
    /\ pendingTerrain = [t \in Tiles |-> "none"]
    /\ pendingImagery = [id \in ImageryIds |-> "none"]
    /\ tileLoadQueue = <<>>
    /\ insertionPoint = NoTile
    /\ tileReplacementQueue = <<>>
    /\ lastSelectionFrame = {}
    /\ tilesToRenderByTextureCount = [k \in 0 .. MaxTextures |-> <<>>]
    /\ debug = [maxDepth |-> 0, tilesVisited |-> 0, tilesCulled |-> 0,
                tilesRendered |-> 0, texturesRendered |-> 0,
                suspendLodUpdate |-> FALSE]
    /\ tileCommands = 0
    /\ colorCommandList = <<>>
    /\ threw = FALSE
    /\ distance = [t \in Tiles |-> 0]
    /\ layerEvents = 0
    /\ frames = 0
    /\ frame = NoFrame

\* the state after construction with both collaborators; the contexts with
\* fewer texture units than MaxTextureUnits are explored with the synchronous
\* providers
Constructed ==
    /\ Fields
    /\ surface = construct(NewSurface([terrainProvider |-> TRUE,
                                       imageryLayerCollection |-> TRUE]))

Init ==
    /\ Constructed
    /\ provider \in Providers
    /\ maximumTextureImageUnits \in 1 .. MaxTextureUnits
    /\ maximumTextureImageUnits < MaxTextureUnits => provider = Provider("sync", {}, {})

Idle == ~threw /\ surface.status = "constructed"

\* one frame
Update ==
    /\ Idle
    /\ frames < MaxFrames
    /\ \E cam \in Cameras, budget \in Budgets, busy \in BOOLEAN :
          /\ busy => provider.kind = "ellipsoid"
          /\ Install(update(World, cam, budget, busy))
    /\ frames' = frames + 1
    /\ UNCHANGED layerEvents

\* imageryLayerCollection.add(layer, index) and its layerAdded event
LayerAdd ==
    /\ Idle
    /\ layerEvents < MaxLayerEvents
    /\ \E layer \in Layers \ Range(imageryLayerCollection),
          index \in 0 .. Len(imageryLayerCollection), ready \in BOOLEAN :
          LET w == [World EXCEPT
                       !.collection = Splice(@, index, 0, <<layer>>),
                       !.providerReady = IF ready THEN @ \cup {layer} ELSE @ \ {layer}]
          IN  Install(onLayerAdded(w, layer, index))
    /\ layerEvents' = layerEvents + 1
    /\ UNCHANGED frames

\* imageryLayerCollection.remove(layer) and its layerRemoved event
LayerRemove ==
    /\ Idle
    /\ layerEvents < MaxLayerEvents
    /\ \E layer \in Range(imageryLayerCollection) :
          LET w == [World EXCEPT !.collection = Without(@, layer)]
          IN  Install(onLayerRemoved(w, layer))
    /\ layerEvents' = layerEvents + 1
    /\ UNCHANGED frames

\* imageryLayerCollection raise/lower and its layerMoved event
LayerMove ==
    /\ Idle
    /\ layerEvents < MaxLayerEvents
    /\ \E layer \in Range(imageryLayerCollection),
          newIndex \in 0 .. Len(imageryLayerCollection) - 1 :
          /\ imageryLayerCollection[newIndex + 1] # layer
          /\ LET w == [World EXCEPT !.collection =
                          Splice(Without(@, layer), newIndex, 0, <<layer>>)]
             IN  Install(onLayerMoved(w, layer, newIndex))
    /\ layerEvents' = layerEvents + 1
    /\ UNCHANGED frames

\* the imagery provider of a layer becomes ready
ProviderBecomesReady ==
    /\ Idle
    /\ \E layer \in Range(imageryLayerCollection) \ providerReady :
          Install([World EXCEPT !.providerReady = @ \cup {layer}])
    /\ UNCHANGED <<layerEvents, frames>>

\* the terrain requests and tasks in flight complete
TerrainArrives ==
    /\ Idle
    /\ \E tile \in Tiles : pendingTerrain[tile] # "none"
    /\ Install([World EXCEPT
                   !.state = [t \in Tiles |-> IF pendingTerrain[t] # "none"
                                              THEN pendingTerrain[t] ELSE @[t]],
                   !.pendingTerrain = [t \in Tiles |-> "none"]])
    /\ UNCHANGED <<layerEvents, frames>>

\* the imagery requests in flight complete; a bad image is discarded
ImageryArrives ==
    /\ Idle
    /\ \E id \in ImageryIds : pendingImagery[id] # "none"
    /\ Install([World EXCEPT
                   !.imageryState =
                       [id \in ImageryIds |->
                           IF pendingImagery[id] = "none" THEN @[id]
                           ELSE IF id \in provider.badImagery THEN "INVALID"
                           ELSE pendingImagery[id]],
                   !.pendingImagery = [id \in ImageryIds |-> "none"]])
    /\ UNCHANGED <<layerEvents, frames>>

\* CentralBodySurface.prototype.toggleLodUpdate
ToggleLodUpdate ==
    /\ Idle
    /\ Install([World EXCEPT !.debug.suspendLodUpdate = ~@])
    /\ UNCHANGED <<layerEvents, frames>>

Next ==
    \/ Update
    \/ LayerAdd
    \/ LayerRemove
    \/ LayerMove
    \/ ProviderBecomesReady
    \/ TerrainArrives
    \/ ImageryArrives
    \/ ToggleLodUpdate

Spec == Init /\ [][Next]_vars

\* the layerMoved event for a layer that keeps its index: _onLayerMoved
\* called with newIndex = oldIndex
LayerMoveInPlace ==
    /\ Idle
    /\ layerEvents < MaxLayerEvents
    /\ \E layer \in Range(imageryLayerCollection) :
          Install(onLayerMoved(World, layer,
                               IndexOf(imageryLayerCollection, layer) - 1))
    /\ layerEvents' = layerEvents + 1
    /\ UNCHANGED frames

NextMove ==
    \/ Next
    \/ LayerMoveInPlace

\* the engine with the in-place move among its layer events
SpecMove == Init /\ [][NextMove]_vars

\* imageryLayerCollection.add(layer, index) followed at once by
\* imageryLayerCollection.remove(layer): the layerAdded and the layerRemoved
\* event of the same layer, nothing in between
LayerAddThenRemove ==
    /\ Idle
    /\ layerEvents + 1 < MaxLayerEvents
    /\ \E layer \in Layers \ Range(imageryLayerCollection),
          index \in 0 .. Len(imageryLayerCollection), ready \in BOOLEAN :
          LET removed(v) ==
                  onLayerRemoved([v EXCEPT !.collection = Without(@, layer)], layer)
              added(w) == onLayerAdded(w, layer, index)
          IN  Install(removed(added(
                  [World EXCEPT
                      !.collection = Splice(@, index, 0, <<layer>>),
                      !.providerReady = IF ready THEN @ \cup {layer}
                                        ELSE @ \ {layer}])))
    /\ layerEvents' = layerEvents + 2
    /\ UNCHANGED frames

NextRoundTrip ==
    \/ Next
    \/ LayerAddThenRemove

\* the engine with the add-remove round trip as one step
SpecRoundTrip == Init /\ [][NextRoundTrip]_vars

\* ------------------------------------------------------------------------
\* Vocabulary of the properties
\* ------------------------------------------------------------------------
\* the tiles linked in the replacement queue
Resident == Range(tileReplacementQueue)

\* the render lists, bucket after bucket
RECURSIVE renderListFrom(_)
renderListFrom(k) ==
    IF k > MaxTextures THEN <<>>
    ELSE tilesToRenderByTextureCount[k] \o renderListFrom(k + 1)

RenderList == renderListFrom(0)

Rendered == Range(RenderList)

\* the tiles update emitted a draw command for
Commanded == {colorCommandList[i].tile : i \in 1 .. Len(colorCommandList)}

layerOfEntry(stack, i) == imageryLayer(stack[i].imagery)

Contiguous(stack) ==
    \A i, j, k \in 1 .. Len(stack) :
        (i < k /\ k < j /\ layerOfEntry(stack, i) = layerOfEntry(stack, j))
            => layerOfEntry(stack, k) = layerOfEntry(stack, i)

InCollectionOrder(stack, collection) ==
    \A i, j \in 1 .. Len(stack) :
        (/\ i < j
         /\ layerOfEntry(stack, i) # layerOfEntry(stack, j)
         /\ layerOfEntry(stack, i) \in Range(collection)
         /\ layerOfEntry(stack, j) \in Range(collection))
            => IndexOf(collection, layerOfEntry(stack, i))
                  < IndexOf(collection, layerOfEntry(stack, j))

\* ------------------------------------------------------------------------
\* Properties
\* ------------------------------------------------------------------------
\* C1: on every resident tile the imagery stack keeps the entries of one layer
\* contiguous, and the layer blocks follow the order of the layer collection.
C1_StackOrder ==
    \A t \in Resident :
        /\ Contiguous(imagery[t])
        /\ InCollectionOrder(imagery[t], imageryLayerCollection)

\* C2: every tile linked in the load queue has doneLoading = false.
C2_LoadQueueNotDone == \A t \in Range(tileLoadQueue) : ~doneLoading[t]

\* C3: a tile is linked in the replacement queue if and only if its terrain
\* state is not UNLOADED.
C3_ResidentIffLoaded == \A t \in Tiles : (t \in Resident) <=> (state[t] # "UNLOADED")

C5_NoPartialRefinement ==
    \A t \in Range(frame.visited) :
        /\ t \in frame.refined =>
              /\ t \notin frame.belowSSE
              /\ \A c \in Range(ChildrenOf(t)) : c \in frame.renderableAtSelection
        /\ t \notin frame.refined =>
              /\ t \in Rendered
              /\ Level(t) < MaxLevel =>
                    \A c \in Range(ChildrenOf(t)) :
                        c \notin Range(frame.visited) /\ c \notin Rendered

\* C6: in one selection pass every visited tile is either added to a render
\* list or refined, never both, and is added to a render list at most once.
C6_RenderedXorRefined ==
    /\ \A t \in Range(frame.visited) : (t \in Rendered) <=> (t \notin frame.refined)
    /\ \A i, j \in 1 .. Len(RenderList) : RenderList[i] = RenderList[j] => i = j

\* C7: a tile at the terrain provider's maxLevel is never refined: when
\* selection visits it, it is added to a render list whatever its screen-space
\* error, and no children are created for it.
C7_MaxLevelNeverRefined ==
    \A t \in Tiles :
        Level(t) = MaxLevel =>
            /\ t \notin frame.refined
            /\ t \notin children
            /\ t \in Range(frame.visited) => t \in Rendered

\* C8: the lengths of the render lists add up to debug.tilesRendered.
C8_TilesRenderedCount == Len(RenderList) = debug.tilesRendered

\* C9: every tile update emitted a draw command for was renderable when the
\* commands were assembled.
C9_CommandedIsRenderable == \A t \in Commanded : t \in frame.renderableAtAssembly

\* C10: a tile that was not renderable when the frame started and that the
\* pump marked renderable in the frame is in no render list and in no draw
\* command of that frame.
C10_NotDrawnInSameFrame ==
    \A t \in frame.madeRenderable \ frame.renderableAtStart :
        t \notin Rendered /\ t \notin Commanded

\* ------------------------------------------------------------------------
\* Reachable states in which the cases of the properties happen
\* ------------------------------------------------------------------------
\* C2: the pump finished a tile and unlinked it while other tiles stay queued
C2_Witness ==
    /\ tileLoadQueue # <<>>
    /\ \E t \in frame.madeRenderable : doneLoading[t] /\ t \notin Range(tileLoadQueue)

C5_Witness ==
    \E t \in Range(frame.visited) :
        /\ Level(t) < MaxLevel
        /\ t \notin frame.belowSSE
        /\ t \in Rendered
        /\ \E c \in Range(ChildrenOf(t)) : c \in frame.renderableAtSelection
        /\ \E c \in Range(ChildrenOf(t)) : c \notin frame.renderableAtSelection

\* C6: a selection pass refined a tile and rendered its children
C6_Witness ==
    \E t \in frame.refined : \E c \in Range(ChildrenOf(t)) : c \in Rendered

\* C7: selection visited a tile at maxLevel whose error is above the limit
C7_Witness ==
    \E t \in Range(frame.visited) :
        Level(t) = MaxLevel /\ t \notin frame.belowSSE /\ t \in Rendered

\* C8: a selection pass listed tiles in two different buckets
C8_Witness ==
    /\ debug.tilesRendered >= 2
    /\ \E j, k \in 0 .. MaxTextures :
          /\ j # k
          /\ tilesToRenderByTextureCount[j] # <<>>
          /\ tilesToRenderByTextureCount[k] # <<>>

\* ------------------------------------------------------------------------
\* The engine that runs for ever: update is called again and again, requests
\* in flight complete, providers become ready, every request succeeds
\* ------------------------------------------------------------------------
InitLive ==
    /\ Constructed
    /\ provider = Provider("async", {}, {})
    /\ maximumTextureImageUnits = MaxTextureUnits

\* the camera near the surface, which refines the roots, and the camera far
\* from it, which renders them
LiveCameras == {Camera(d, {}, "SCENE3D", FALSE) : d \in {0, MaxLevel + 1}}

\* a frame whose pump runs to the end of the load queue; the count of the
\* frames is kept modulo 2
UpdateUncut ==
    /\ Idle
    /\ \E cam \in LiveCameras : Install(update(World, cam, Unlimited, FALSE))
    /\ frames' = (frames + 1) % 2
    /\ UNCHANGED layerEvents

NextLive ==
    \/ UpdateUncut
    \/ LayerAdd
    \/ ProviderBecomesReady
    \/ TerrainArrives
    \/ ImageryArrives

\* the next call of update, as the count of the frames shows it: UpdateUncut
\* is the one action of NextLive that changes frames, and it is enabled
\* whenever FrameComes is
FrameComes ==
    /\ Idle
    /\ frames' = (frames + 1) % 2

\* frames keep coming and none is cut, requests in flight complete, providers
\* become ready
SpecLive ==
    /\ InitLive
    /\ [][NextLive]_vars
    /\ WF_frames(FrameComes)
    /\ WF_vars(ProviderBecomesReady)
    /\ WF_vars(TerrainArrives)
    /\ WF_vars(ImageryArrives)

\* ------------------------------------------------------------------------
\* The engine with a terrain provider that fails on one tile, frame after
\* frame with no bound on their number
\* ------------------------------------------------------------------------
FailingProvider == Provider("sync", {<<1, NumRoots + 1>>}, {NumRoots + 2})

InitFailing ==
    /\ Constructed
    /\ provider = FailingProvider
    /\ maximumTextureImageUnits = MaxTextureUnits

\* one frame; the count of the frames is kept modulo 2
UpdateOn ==
    /\ Idle
    /\ \E cam \in Cameras, budget \in Budgets :
          Install(update(World, cam, budget, FALSE))
    /\ frames' = (frames + 1) % 2
    /\ UNCHANGED layerEvents

NextFailing ==
    \/ UpdateOn

SpecFailing == InitFailing /\ [][NextFailing]_vars

\* ------------------------------------------------------------------------
\* The engine from the call of its constructor on
\* ------------------------------------------------------------------------
InitConstruct ==
    /\ Fields
    /\ surface \in {NewSurface(d) : d \in Descriptions}
    /\ provider = Provider("sync", {}, {})
    /\ maximumTextureImageUnits = MaxTextureUnits

\* new CentralBodySurface(description)
Construct ==
    /\ surface.status = "new"
    /\ Install([World EXCEPT !.surface = construct(@)])
    /\ UNCHANGED <<layerEvents, frames>>

NextConstruct ==
    \/ Construct
    \/ Update
    \/ LayerAdd
    \/ LayerRemove

SpecConstruct == InitConstruct /\ [][NextConstruct]_vars

\* C11: after every frame the replacement queue holds at most
\* max(trim limit, number of tiles marked rendered in that frame) tiles.
C11_ResidentBound ==
    (frames > 0 /\ ~threw) =>
        Len(tileReplacementQueue) <= Max(TrimLimit, Cardinality(frame.touched))

\* C12: no trimTiles call of the load pump evicts a level-zero tile.
C12_RootsNeverEvicted == \A t \in Range(levelZeroTiles) : t \notin frame.evicted

\* the number of draw commands the last assembly emitted for a tile
CommandsOf(t) ==
    Cardinality({i \in 1 .. Len(colorCommandList) : colorCommandList[i].tile = t})

CeilDiv(a, b) == (a + b - 1) \div b

\* C13: for every rendered tile the number of draw commands of a frame is
\* max(1, ceil(readyCount / maxTextureUnits)), readyCount being the number of
\* READY entries of its imagery stack.
C13_CommandsPerTile ==
    frame.assembled =>
        \A t \in Rendered :
            CommandsOf(t) =
                Max(1, CeilDiv(frame.readyAtAssembly[t], maximumTextureImageUnits))

\* the candidate nearest to the failed imagery: every other candidate is one
\* of its ancestors
NearestOf(candidates) ==
    CHOOSE c \in candidates : candidates \ {c} \subseteq Ancestors(c)

C15_NoAncestorCompletes ==
    \A s \in frame.substitutions : s.candidates = {} => ~s.threw

NoDuplicates(q) == \A i, j \in 1 .. Len(q) : q[i] = q[j] => i = j

C18_MoveInPlaceIsIdentity ==
    [][LayerMoveInPlace => \A t \in Resident : imagery'[t] = imagery[t]]_vars

\* C19: adding a layer and removing it at once restores the imagery stack of
\* every resident tile, and a tile whose reload is not pending afterwards has
\* the doneLoading and renderable flags it had before the add.
C19_AddRemoveRoundTrip ==
    [][LayerAddThenRemove =>
          \A t \in Resident :
              /\ imagery'[t] = imagery[t]
              /\ doneLoading'[t] =>
                    (doneLoading[t] /\ renderable'[t] = renderable[t])]_vars

\* C20: the pump sets doneLoading on a tile only in a visit that found the
\* terrain READY, examined every entry of the imagery stack and found every
\* entry READY; that visit also sets renderable and unlinks the tile from the
\* load queue, so a visit that stopped before the end of the stack does not
\* mark the tile done.
C20_DoneOnlyWhenLoaded ==
    \A v \in frame.visits :
        /\ v.terrain = "READY"
        /\ v.examined = v.length
        /\ v.notReady = {}
        /\ v.renderableAfter
        /\ ~v.linkedAfter

\* a pass of the pump marked done a tile with two entries in its stack, and
\* left another tile in the load queue
C20_Witness ==
    /\ \E v \in frame.visits : v.length > 1
    /\ tileLoadQueue # <<>>
    /\ ~threw

\* selection of the last frame queued the tile for loading if it was not done:
\* the tile is a root, or its parent was visited and did not meet the
\* screen-space error (lines 294-296, 322, 544-546)
SelectionQueues(t) ==
    \/ t \in Range(levelZeroTiles)
    \/ /\ Parent(t) \in Range(frame.visited)
       /\ Parent(t) \notin frame.belowSSE
       /\ Level(Parent(t)) < MaxLevel

\* C16 (amended): a resident tile whose doneLoading a layer add cleared, and
\* which selection queues in infinitely many frames, has doneLoading true
\* again later on (or has left the replacement queue), when frames keep
\* coming, the pump is not cut and every request completes.
C16_ReloadedWhenQueued ==
    \A t \in Tiles :
        []<>SelectionQueues(t) =>
            ((t \in frame.clearedByAdd) ~> (doneLoading[t] \/ t \notin Resident))

\* a frame completed the reload of a root and of a tile below the roots whose
\* doneLoading a layer add had cleared
C16_Witness ==
    /\ frame.reloaded \cap Range(levelZeroTiles) # {}
    /\ frame.reloaded \ Range(levelZeroTiles) # {}

\* C16: a resident tile whose doneLoading a layer add cleared has doneLoading
\* true again later on (or has left the replacement queue), when frames keep
\* coming, the pump is not cut for ever and every request completes.
C16_ReloadedAfterAdd ==
    \A t \in Tiles :
        (t \in frame.clearedByAdd) ~> (doneLoading[t] \/ t \notin Resident)

\* C21 (amended): a tile whose terrain state is FAILED is not renderable, not
\* doneLoading, in no render list and in no command; a tile that was FAILED
\* when the frame began and was not evicted in the frame is still FAILED and
\* no terrain provider call was issued for it.
C21_FailedStaysFailed ==
    /\ \A t \in Tiles :
           state[t] = "FAILED" =>
               /\ ~renderable[t]
               /\ ~doneLoading[t]
               /\ t \notin Rendered
               /\ t \notin Commanded
    /\ \A t \in frame.failedAtStart \ frame.evicted :
           /\ state[t] = "FAILED"
           /\ \A c \in frame.calls : c.tile # t

\* the pump went past a tile of the load queue that was FAILED when the frame
\* began, and called the terrain provider for a tile behind it
C21_Witness ==
    \E t \in frame.failedAtStart \ frame.evicted :
        /\ t \in Range(frame.queueAfterSelection)
        /\ \E c \in frame.calls :
              /\ c.tile \in Range(frame.queueAfterSelection)
              /\ IndexOf(frame.queueAfterSelection, t)
                    < IndexOf(frame.queueAfterSelection, c.tile)

\* C21: a tile whose terrain state was FAILED at the beginning of a frame is
\* in no render list, is not renderable or doneLoading, and gets no terrain
\* provider call in that frame or in any later one.
C21_FailedNeverRequested ==
    \A t \in frame.failedBefore :
        /\ ~renderable[t]
        /\ ~doneLoading[t]
        /\ t \notin Rendered
        /\ \A c \in frame.calls : c.tile # t

\* the imagery objects the stack of a tile refers to, as imagery or as
\* originalImagery
ReferencedBy(t) ==
    {imagery[t][i].imagery : i \in 1 .. Len(imagery[t])} \cup
    ({imagery[t][i].originalImagery : i \in 1 .. Len(imagery[t])} \ {NoImagery})

\* C22: every imagery that an entry in the stack of a resident tile refers
\* to, as its imagery or as its originalImagery, has a reference count of at
\* least 1.
C22_ReferencedIsCounted ==
    \A t \in Resident : \A id \in ReferencedBy(t) : referenceCount[id] >= 1

\* after a layer event, a resident tile holds an entry that fell back to an
\* ancestor and another resident tile holds a placeholder
C22_Witness ==
    /\ layerEvents > 0
    /\ \E t \in Resident : \E i \in 1 .. Len(imagery[t]) :
          imagery[t][i].originalImagery # NoImagery
    /\ \E t \in Resident : \E i \in 1 .. Len(imagery[t]) :
          IsPlaceholder(imagery[t][i].imagery)

\* C23: the constructor called with a description that lacks the
\* terrainProvider or the imageryLayerCollection ends with a DeveloperError,
\* with no layer event listener registered and no root tile or queue created;
\* with both it constructs the surface.
C23_MissingCollaborator ==
    surface.status # "new" =>
        IF surface.description.terrainProvider
           /\ surface.description.imageryLayerCollection
        THEN surface.status = "constructed"
        ELSE /\ surface.status = "DeveloperError"
             /\ surface.listeners = {}
             /\ ~surface.levelZeroTiles
             /\ ~surface.queues
             /\ tileReplacementQueue = <<>>
             /\ tileLoadQueue = <<>>

\* the constructor was called with a terrainProvider and without an
\* imageryLayerCollection, and threw
C23_Witness ==
    /\ surface.status = "DeveloperError"
    /\ surface.description.terrainProvider
    /\ ~surface.description.imageryLayerCollection

\* the engine of an application that has one more layer to add: the layers
\* of AllLayers, with a synchronous provider and every texture unit
InitLayers ==
    /\ Constructed
    /\ provider = Provider("sync", {}, {})
    /\ maximumTextureImageUnits = MaxTextureUnits

\* imageryLayerCollection.add(layer, index) of any layer the application has,
\* and its layerAdded event
LayerAddAny ==
    /\ Idle
    /\ layerEvents < MaxLayerEvents
    /\ \E layer \in AllLayers \ Range(imageryLayerCollection),
          index \in 0 .. Len(imageryLayerCollection), ready \in BOOLEAN :
          LET w == [World EXCEPT
                       !.collection = Splice(@, index, 0, <<layer>>),
                       !.providerReady = IF ready THEN @ \cup {layer} ELSE @ \ {layer}]
          IN  Install(onLayerAdded(w, layer, index))
    /\ layerEvents' = layerEvents + 1
    /\ UNCHANGED frames

\* the positions of the entries of a layer in a stack
BlockOf(stack, layer) == {i \in 1 .. Len(stack) : layerOfEntry(stack, i) = layer}

\* the layer a LayerAdd step adds to the collection
AddedLayer ==
    CHOOSE l \in Range(imageryLayerCollection') : l \notin Range(imageryLayerCollection)

\* the layer that follows a layer in a collection, NoLayer after the last
NextLayerOf(collection, layer) ==
    collectionGet(collection, IndexOf(collection, layer))

\* the block of a layer ends right where the block of the next layer begins,
\* or at the tail of the stack when the layer is the last of the collection
BlockBeforeNext(stack, collection, layer) ==
    LET next == NextLayerOf(collection, layer)
    IN  /\ Contiguous(stack)
        /\ InCollectionOrder(stack, collection)
        /\ (next # NoLayer /\ BlockOf(stack, next) # {}) =>
               \E i \in BlockOf(stack, layer) : i + 1 \in BlockOf(stack, next)
        /\ next = NoLayer => Len(stack) \in BlockOf(stack, layer)

\* what C24 says of one resident tile in a LayerAdd step
AddedInPlace(t) ==
    IF Len(imagery'[t]) > Len(imagery[t])
    THEN /\ BlockBeforeNext(imagery'[t], imageryLayerCollection', AddedLayer)
         /\ ~doneLoading'[t]
    ELSE /\ imagery'[t] = imagery[t]
         /\ doneLoading'[t] = doneLoading[t]

\* C24: after the layerAdded handler, on every resident tile that got
\* skeletons of the new layer the block of the new layer lies right before the
\* block of the layer that follows it in the collection (at the tail when it
\* is the last layer), the stack is in collection order, and doneLoading is
\* cleared on those tiles and on no other.
C24_AddedBlockInPlace ==
    [][LayerAddAny => \A t \in Resident : AddedInPlace(t)]_vars

\* imageryLayerCollection moves a layer to newIndex and raises layerMoved, in
\* an application that raised up to ExtraLayers more layer events
LayerMoveOf(layer, newIndex) ==
    /\ Idle
    /\ layerEvents < MaxLayerEvents + ExtraLayers
    /\ layer \in Range(imageryLayerCollection)
    /\ newIndex \in 0 .. Len(imageryLayerCollection) - 1
    /\ imageryLayerCollection[newIndex + 1] # layer
    /\ Install(onLayerMoved(
           [World EXCEPT !.collection =
               Splice(Without(@, layer), newIndex, 0, <<layer>>)],
           layer, newIndex))
    /\ layerEvents' = layerEvents + 1
    /\ UNCHANGED frames

LayerMoveAny == \E layer \in AllLayers, newIndex \in 0 .. NumLayers + ExtraLayers :
                    LayerMoveOf(layer, newIndex)

NextLayers ==
    \/ Update
    \/ LayerAddAny
    \/ LayerMoveAny

\* the engine of the application with one more layer: frames, adds and moves
SpecLayers == InitLayers /\ [][NextLayers]_vars

\* the entries of a stack that belong (own) or do not belong to a layer
EntriesOf(stack, layer, own) ==
    SelectSeq(stack, LAMBDA e : (imageryLayer(e.imagery) = layer) = own)

\* what C25 says of one resident tile in a step that moves layer to newIndex
MovedInPlace(t, layer, next) ==
    /\ EntriesOf(imagery'[t], layer, TRUE) = EntriesOf(imagery[t], layer, TRUE)
    /\ EntriesOf(imagery'[t], layer, FALSE) = EntriesOf(imagery[t], layer, FALSE)
    /\ (BlockOf(imagery'[t], layer) # {} /\ BlockOf(imagery'[t], next) # {}) =>
           \E i \in BlockOf(imagery'[t], layer) : i + 1 \in BlockOf(imagery'[t], next)
    /\ (BlockOf(imagery'[t], layer) # {} /\ next = NoLayer) =>
           Len(imagery'[t]) \in BlockOf(imagery'[t], layer)

\* C25: after the layerMoved handler, on every resident tile the block of the
\* moved layer lies right before the block of the layer that now follows it in
\* the collection (at the end of the stack when no layer follows), whether
\* the layer moved toward the front or toward the back; the other entries
\* keep their relative order and no entry is lost or duplicated.
C25_MovedBlockInPlace ==
    [][\A layer \in AllLayers, newIndex \in 0 .. NumLayers + ExtraLayers :
          LayerMoveOf(layer, newIndex) =>
              \A t \in Resident :
                  MovedInPlace(t, layer, NextLayerOf(imageryLayerCollection', layer))]_vars

\* the layer a LayerRemove step takes out of the collection
RemovedLayer ==
    CHOOSE l \in Range(imageryLayerCollection) : l \notin Range(imageryLayerCollection')

\* the entries of the stacks of the tiles of a queue that hold an imagery
RECURSIVE EntriesHolding(_, _, _)
EntriesHolding(stacks, queue, id) ==
    IF queue = <<>> THEN 0
    ELSE Len(SelectSeq(stacks[Head(queue)], LAMBDA e : e.imagery = id))
         + EntriesHolding(stacks, Tail(queue), id)

\* what C26 says of one resident tile in a step that removes a layer
RemovedCleanly(t, layer) ==
    /\ imagery'[t] = EntriesOf(imagery[t], layer, FALSE)
    /\ renderable'[t] =
          IF BlockOf(imagery[t], layer) # {} /\ imagery'[t] = <<>>
          THEN FALSE ELSE renderable[t]
    /\ BlockOf(imagery[t], layer) = {} => doneLoading'[t] = doneLoading[t]

\* C26: the layerRemoved handler removes from every resident tile exactly the
\* entries of the removed layer and leaves the others in order, releases one
\* reference per removed entry, clears renderable only on the tiles whose
\* stack became empty through the removal, and leaves the tiles without an
\* entry of the layer unchanged.
C26_RemovedExactly ==
    [][LayerRemove =>
          /\ \A t \in Resident : RemovedCleanly(t, RemovedLayer)
          /\ \A id \in ImageryIds :
                 imageryLayer(id) = RemovedLayer =>
                     referenceCount'[id] = referenceCount[id]
                         - EntriesHolding(imagery, tileReplacementQueue, id)]_vars

\* the skeletons a replacement put in the place of the placeholder
Inserted(p) == SubSeq(p.after, p.index + 1, Len(p.after) - Len(p.before) + p.index + 1)

\* C27: an iteration of the pump that meets at index i a placeholder whose
\* provider is ready releases one reference of the placeholder, puts the
\* skeletons of the layer in its place at index i, leaving the entries before
\* and behind it as they were, and goes on at index i; the visit begins an
\* iteration with every entry it passes exactly once, in stack order.
C27_PlaceholderReplacedInPlace ==
    /\ \A p \in frame.replacements :
          /\ p.released = 1
          /\ p.resumedAt = p.index
          /\ Len(p.after) >= Len(p.before) - 1
          /\ SubSeq(p.after, 1, p.index) = SubSeq(p.before, 1, p.index)
          /\ SubSeq(p.after, Len(p.after) - (Len(p.before) - p.index - 1) + 1,
                    Len(p.after))
                = SubSeq(p.before, p.index + 2, Len(p.before))
          /\ \A k \in 1 .. Len(Inserted(p)) :
                /\ imageryLayer(Inserted(p)[k].imagery) = imageryLayer(p.placeholder)
                /\ ~IsPlaceholder(Inserted(p)[k].imagery)
    /\ \A v \in frame.trails :
          ~v.threw =>
              LET passed == SelectSeq(v.trail, LAMBDA e : ~e.replaced)
              IN  /\ Len(passed) = v.examined
                  /\ \A k \in 1 .. Len(passed) : passed[k].entry = v.stack[k]

\* a visit replaced a placeholder that had an entry behind it, got a skeleton
\* for it and went on to the end of the stack
C27_Witness ==
    \E p \in frame.replacements :
        /\ Len(p.before) > p.index + 1
        /\ Len(p.after) = Len(p.before)
        /\ \E v \in frame.trails :
              v.tile = p.tile /\ ~v.threw /\ v.examined = Len(v.stack)

\* the engine with asynchronous providers over a few more frames, cut by the
\* time slice or not: requests stay in flight over several frames
InFlightFrames == 5      \* calls of update in one behaviour of SpecInFlight

\* one frame, cut by the time slice or not
UpdateCut ==
    /\ Idle
    /\ frames < InFlightFrames
    /\ \E cam \in LiveCameras, budget \in Budgets :
          Install(update(World, cam, budget, FALSE))
    /\ frames' = frames + 1
    /\ UNCHANGED layerEvents

NextInFlight ==
    \/ UpdateCut
    \/ TerrainArrives
    \/ ImageryArrives

SpecInFlight == InitLive /\ [][NextInFlight]_vars

\* the state a provider call is issued from
CallState ==
    [requestTileGeometry |-> "UNLOADED", transformGeometry |-> "RECEIVED",
     createResources |-> "TRANSFORMED", requestImagery |-> "UNLOADED",
     createTexture |-> "RECEIVED", reprojectTexture |-> "TEXTURE_LOADED"]

\* C28: the pump issues every provider call from the state the call belongs
\* to, and never for a tile or an imagery that has a request or a task in
\* flight.
C28_NoCallWhileInFlight ==
    \A c \in frame.calls : c.from = CallState[c.call] /\ ~c.inFlight

\* C29: when the commands of a frame are assembled, every tile in the render
\* list of k textures has exactly k READY entries in its imagery stack.
C29_BucketMatchesReadyCount ==
    frame.assembled =>
        \A k \in 0 .. MaxTextures :
            \A j \in 1 .. Len(tilesToRenderByTextureCount[k]) :
                frame.readyAtAssembly[tilesToRenderByTextureCount[k][j]] = k

\* the textures the commands of a tile carry, in the order of the commands
RECURSIVE TexturesOf(_, _)
TexturesOf(commands, t) ==
    IF commands = <<>> THEN <<>>
    ELSE (IF Head(commands).tile = t THEN Head(commands).dayTextures ELSE <<>>)
         \o TexturesOf(Tail(commands), t)

\* the READY entries of the stack of a tile, as textures, in stack order
RECURSIVE ReadyEntries(_, _)
ReadyEntries(t, imageryIndex) ==
    IF imageryIndex >= Len(imagery[t]) THEN <<>>
    ELSE (IF imageryState[imagery[t][imageryIndex + 1].imagery] = "READY"
          THEN <<dayTexture(imagery[t][imageryIndex + 1], imageryIndex)>>
          ELSE <<>>)
         \o ReadyEntries(t, imageryIndex + 1)

\* the commands of a tile follow one another in the command list
Consecutive(t) ==
    \A i, j, k \in 1 .. Len(colorCommandList) :
        (i < j /\ j < k /\ colorCommandList[i].tile = t /\ colorCommandList[k].tile = t)
            => colorCommandList[j].tile = t

\* what C30 says of the state a frame ends in
CarriesReadyEntries ==
    /\ \A t \in Rendered : TexturesOf(colorCommandList, t) = ReadyEntries(t, 0)
    /\ \A t \in Rendered : Consecutive(t)
    /\ \A i \in 1 .. Len(colorCommandList) :
           Len(colorCommandList[i].dayTextures) <= maximumTextureImageUnits

\* C30: the commands a frame emits for a rendered tile carry every READY
\* entry of its imagery stack exactly once, in stack order over consecutive
\* commands, no entry that is not READY, and at most maxTextureUnits textures
\* in one command.
C30_CommandsCarryReadyEntries ==
    [][(frames' # frames /\ ~threw') => CarriesReadyEntries']_vars

\* with one texture unit a frame has given a tile with two READY entries two
\* commands, the first with the first entry and the second with the second
C30_Witness ==
    /\ maximumTextureImageUnits = 1
    /\ CarriesReadyEntries
    /\ \E t \in Rendered :
          /\ Len(ReadyEntries(t, 0)) = 2
          /\ \E i \in 1 .. Len(colorCommandList) - 1 :
                /\ colorCommandList[i].tile = t
                /\ colorCommandList[i].dayTextures = <<ReadyEntries(t, 0)[1]>>
                /\ colorCommandList[i + 1].tile = t
                /\ colorCommandList[i + 1].dayTextures = <<ReadyEntries(t, 0)[2]>>

\* C31: after command assembly the command pool holds exactly the commands
\* the frame emitted: its length is the number of commands emitted.
C31_PoolHoldsEmitted ==
    frame.assembled => tileCommands = Len(colorCommandList)

\* what C32 says of a frame that begins with suspendLodUpdate set
SelectionFrozen ==
    /\ tilesToRenderByTextureCount' = tilesToRenderByTextureCount
    /\ debug' = debug
    /\ ~frame'.selected
    /\ Range(tileLoadQueue') \subseteq Range(tileLoadQueue)
    /\ insertionPoint' = insertionPoint \/ insertionPoint \notin Range(tileLoadQueue')
    /\ lastSelectionFrame \subseteq lastSelectionFrame' \cup frame'.evicted
    /\ ~threw' => (frame'.assembled /\ Commanded' = Rendered')

\* C32: a frame that begins with suspendLodUpdate set leaves the render
\* lists, the debug counters, the insertion point of the load queue and the
\* frame marker of the replacement queue as they were, queues no tile, and
\* still runs the pump and the command assembly; toggleLodUpdate flips the
\* mode and nothing else, so that two calls restore it.
C32_SuspendFreezesSelection ==
    [][/\ (frames' # frames /\ debug.suspendLodUpdate) => SelectionFrozen
       /\ ToggleLodUpdate =>
             /\ debug'.suspendLodUpdate = ~debug.suspendLodUpdate
             /\ tilesToRenderByTextureCount' = tilesToRenderByTextureCount
             /\ tileLoadQueue' = tileLoadQueue]_vars

\* a frame that began with suspendLodUpdate set has run: its pump made a tile
\* renderable and its assembly emitted commands from the lists it kept
C32_Witness ==
    /\ debug.suspendLodUpdate
    /\ ~frame.selected
    /\ frame.assembled
    /\ frame.madeRenderable # {}
    /\ colorCommandList # <<>>

\* ------------------------------------------------------------------------
\* The engine whose imagery provider fails for one child tile, so that the
\* child's entry falls back to the imagery of the root, over a few more frames
\* ------------------------------------------------------------------------
FallbackFrames == 4      \* calls of update in one behaviour of SpecFallback

FallbackProvider == Provider("sync", {<<1, NumRoots + 1>>}, {})

InitFallback ==
    /\ Constructed
    /\ provider = FallbackProvider
    /\ maximumTextureImageUnits = MaxTextureUnits

UpdateFallback ==
    /\ Idle
    /\ frames < FallbackFrames
    /\ \E cam \in LiveCameras, budget \in Budgets :
          Install(update(World, cam, budget, FALSE))
    /\ frames' = frames + 1
    /\ UNCHANGED layerEvents

NextFallback ==
    \/ UpdateFallback
    \/ LayerAdd
    \/ LayerRemove

SpecFallback == InitFallback /\ [][NextFallback]_vars

\* C33: every texture packed into an emitted command has a defined
\* textureTranslationAndScale.
C33_PackedTextureHasScale ==
    \A i \in 1 .. Len(colorCommandList) :
        \A k \in 1 .. Len(colorCommandList[i].dayTextures) :
            colorCommandList[i].dayTextures[k].textureTranslationAndScale

\* C34: in every reachable state a tile with doneLoading = true has
\* renderable = true.
C34_DoneLoadingIsRenderable == \A t \in Tiles : doneLoading[t] => renderable[t]

\* C35: no tile has a layer's skeletons created twice: its stack never holds
\* two sets of entries of one layer (a layer makes one entry on a tile, and
\* the replacement of a placeholder puts one entry in the place of one).
C35_SkeletonsCreatedOnce ==
    \A t \in Tiles :
        \A i, j \in 1 .. Len(imagery[t]) :
            layerOfEntry(imagery[t], i) = layerOfEntry(imagery[t], j) => i = j

\* the imagery and originalImagery fields the stacks of the tiles can hold
EntryFields ==
    {<<t, i, "imagery">> : t \in Tiles, i \in 1 .. MaxTextures} \cup
    {<<t, i, "originalImagery">> : t \in Tiles, i \in 1 .. MaxTextures}

RefersTo(f, id) ==
    /\ f[2] <= Len(imagery[f[1]])
    /\ IF f[3] = "imagery" THEN imagery[f[1]][f[2]].imagery = id
       ELSE imagery[f[1]][f[2]].originalImagery = id

\* C36: in every reachable state the reference count of an imagery is the
\* number of imagery and originalImagery fields of the tiles' entries that
\* refer to it.
C36_CountEqualsReferences ==
    \A id \in ImageryIds :
        referenceCount[id] = Cardinality({f \in EntryFields : RefersTo(f, id)})

\* C37: no tile of a render list is an ancestor or a descendant of another
\* tile of a render list, and no tile is listed twice, in one bucket or in
\* two.
C37_RenderListsDisjoint ==
    \A i, j \in 1 .. Len(RenderList) :
        i # j => /\ RenderList[i] # RenderList[j]
                 /\ RenderList[i] \notin Descendants(RenderList[j])

\* a selection pass refined a tile and listed its children in two buckets
C37_Witness ==
    /\ frame.selected
    /\ \E t \in frame.refined : \A c \in Range(ChildrenOf(t)) : c \in Rendered
    /\ \E j, k \in 0 .. MaxTextures :
          /\ j # k
          /\ tilesToRenderByTextureCount[j] # <<>>
          /\ tilesToRenderByTextureCount[k] # <<>>

\* ------------------------------------------------------------------------
\* destroy (lines 227-244)
\* ------------------------------------------------------------------------
\* lines 66-83: the properties the constructor assigns to the surface
OwnProperties ==
    {"_terrainProvider", "_imageryLayerCollection", "_maxScreenSpaceError",
     "_levelZeroTiles", "_tilesToRenderByTextureCount", "_tileCommands",
     "_tileCommandUniformMaps", "_tileTraversalQueue", "_tileLoadQueue",
     "_tileReplacementQueue", "_ellipsoidalOccluder", "_debug"}

\* lines 227-244: line 228 reads this.levelZeroTiles and line 229 its length,
\* a TypeError when the surface has no such property; then the tiles, the
\* terrain provider and the layer collection are destroyed
destroy(s) ==
    IF "levelZeroTiles" \notin OwnProperties
    THEN [s EXCEPT !.status = "TypeError",
                   !.message = "levelZeroTiles is undefined"]
    ELSE [s EXCEPT !.status = "destroyed",
                   !.destroyed = {"levelZeroTiles", "terrainProvider",
                                  "imageryLayerCollection"}]

\* surface.destroy()
Destroy ==
    /\ surface.status = "constructed"
    /\ Install([World EXCEPT !.surface = destroy(@)])
    /\ UNCHANGED <<layerEvents, frames>>

NextDestroy ==
    \/ Update
    \/ LayerAdd
    \/ LayerRemove
    \/ Destroy

SpecDestroy == InitLayers /\ [][NextDestroy]_vars

\* C38: destroy on the surface completes without error, with every
\* level-zero tile, the terrain provider and the imagery layer collection
\* destroyed.
C38_DestroyCompletes ==
    surface.status # "constructed" =>
        /\ surface.status = "destroyed"
        /\ surface.destroyed = {"levelZeroTiles", "terrainProvider",
                                "imageryLayerCollection"}

\* the index of the first command emitted for a tile, 0 when there is none
FirstCommandOf(t) ==
    IF t \notin Commanded THEN 0
    ELSE CHOOSE i \in 1 .. Len(colorCommandList) :
             /\ colorCommandList[i].tile = t
             /\ \A j \in 1 .. i - 1 : colorCommandList[j].tile # t

\* C39: after a frame with a selection pass, every tile of a render list has
\* the distance the frame's screen-space-error computation measured from the
\* frame's camera, and the commands of the tiles of one bucket are in
\* nondecreasing distance from that camera.
C39_SortedByCameraDistance ==
    (frame.selected /\ frame.assembled) =>
        /\ \A t \in Rendered : distance[t] = frame.distances[t]
        /\ \A k \in DOMAIN tilesToRenderByTextureCount :
               \A a, b \in Range(tilesToRenderByTextureCount[k]) :
                   (0 < FirstCommandOf(a) /\ FirstCommandOf(a) < FirstCommandOf(b))
                       => frame.distances[a] <= frame.distances[b]

\* ------------------------------------------------------------------------
\* The engine with EllipsoidTerrainProvider, whose transform tasks resolve
\* or are rejected
\* ------------------------------------------------------------------------
InitEllipsoid ==
    /\ Constructed
    /\ provider = Provider("ellipsoid", {}, {})
    /\ maximumTextureImageUnits = MaxTextureUnits

\* lines 1146-1149: the task of a tile is rejected; the handler writes to the
\* console and leaves the tile as it is
TransformRejected ==
    /\ Idle
    /\ provider.kind = "ellipsoid"
    /\ \E tile \in Tiles :
          /\ pendingTerrain[tile] # "none"
          /\ Install([World EXCEPT !.pendingTerrain[tile] = "none"])
    /\ UNCHANGED <<layerEvents, frames>>

NextEllipsoid ==
    \/ Update
    \/ TerrainArrives
    \/ TransformRejected

SpecEllipsoid == InitEllipsoid /\ [][NextEllipsoid]_vars

\* C40: a tile whose terrain state is TRANSITIONING has an outstanding task
\* whose outcome changes its state.
C40_TransitioningHasTask ==
    \A t \in Tiles : state[t] = "TRANSITIONING" => pendingTerrain[t] # "none"

====
